---------------------------- MODULE Spec2Model ----------------------------
(* A model of the per-CPU slab primitives of tcmalloc                       *)
(* (percpu_rseq_aarch64.S, stored in src/tcmalloc/transfer_cache.cc from    *)
(* line 131 on).  Each primitive is a restartable sequence: the kernel      *)
(* restarts a thread at the section's entry when it is preempted, migrated  *)
(* or signalled while its program counter lies in [start, commit).          *)
(*                                                                          *)
(* One action is one memory access of the assembly together with the        *)
(* register-only instructions that follow it up to the next access.         *)
EXTENDS Integers, Sequences, FiniteSets

(* ------------------------------ bounds ---------------------------------- *)
NumCpus == 2
NumThreads == 2
NumClasses == 2
NumPtrs == 2
\* longest array handed to PushBatch / PopBatch
MaxBatch == 2
\* accepted pushes counted by the sequential specification
MaxOps == 3
\* size classes of the transfer cache manager, class 0 included
kNumClasses == 4
\* longest value of TCMALLOC_INTERNAL_TRANSFERCACHE_CONTROL
MaxEnvLen == 2
\* most items (single CPUs and ranges) of a CPU list
MaxItems == 3
\* longest text of a cpulist file that is written with any characters
MaxTextLen == 5
\* largest value of the long that PerCpuCmpxchg64 works on
MaxVal == 2
\* AddTrace: the calls of one run, the largest count and the largest weight
MaxCalls == 3
MaxCount == 2
MaxWeight == 2
\* small machines have up to MaxNodes NUMA nodes; a large one has ManyNodes,
\* more than an int has bits
MaxNodes == 3
ManyNodes == 33
\* most partitions and largest scale_by InitNumaTopology is called with
MaxPartitions == 3
MaxScale == 2
\* std::array<char, 16> buf
kBufSize == 16
\* the largest int, and absl::string_view::npos, which is above every index
kIntMax == 2147483647
npos == 2147483647
\* CPU_SET does nothing for a CPU that cpu_set_t has no bit for
CPU_SETSIZE == 1024

Cpus == 0 .. (NumCpus - 1)
Threads == 1 .. NumThreads
Classes == 0 .. (NumClasses - 1)
Ptrs == 1 .. NumPtrs
\* the value of a slab word nothing was stored to yet
Null == 0

(* --------------------------- memory layout ------------------------------ *)
\* strh / ldrh: a header field is 16 bits wide
Trunc16(x) == x % 65536

\* Word cl of a CPU's region is the header of class cl (add x10, x9, x1,
\* LSL #3); the object slots of the classes follow the headers.
\* Class cl has room for cl + 1 objects.
Capacity(cl) == cl + 1
Begin(cl) == NumClasses + (cl * (cl + 1)) \div 2
End(cl) == Begin(cl) + Capacity(cl)
SlabWords == End(NumClasses - 1)
Words == 0 .. (SlabWords - 1)

VARIABLES
  hdr,      \* hdr[c][cl] = [current, begin, end]: the header of class cl on CPU c
  slots,    \* slots[c][i]: word i of CPU c's region
  cpu,      \* cpu[t]: the CPU thread t runs on (__rseq_abi.cpu_id)
  pc,       \* pc[t]: where thread t stands in its primitive
  op,       \* op[t]: the call thread t is in: kind, cl, p, len
  batch,    \* batch[t]: the caller's array of PushBatch / PopBatch
  reg,      \* reg[t]: the registers of thread t
  held,     \* held[t]: the pointers owned by thread t's caller
  ret,      \* ret[t]: what the finished call returned
  handler,  \* handler[t]: calls of the overflow / underflow handler in this call
  acc,      \* accepted pushes and pops, counted by the sequential specification
  scope     \* the workload: the threads that call and the classes they use

\* the transfer cache manager
VARIABLES
  next_to_evict_,   \* the round-robin cursor of DetermineSizeClassToEvict
  implementation_,  \* the variant the manager runs
  evict,            \* evict[t]: thread t's call of DetermineSizeClassToEvict
  choose            \* the call of ChooseImplementation and its environment

\* the NUMA topology builder
VARIABLES
  machine,  \* what InitNumaTopology finds: the nodes, the environment
  numa,     \* the call of InitNumaTopology, its arguments and its tables
  parse     \* the call of ParseCpulist and the file it reads

\* TcmallocSlab_Internal_PerCpuCmpxchg64
VARIABLES
  word,     \* word[c]: the long of CPU c's data that p points to (*p)
  cmpxchg   \* cmpxchg[t]: thread t's call of PerCpuCmpxchg64 and its CPU

VARIABLES
  stt,      \* the StackTraceTable: its fields, table_ as the chains of its slots
  added     \* the AddTrace calls made so far: how many, and with which traces

slabVars ==
  <<hdr, slots, cpu, pc, op, batch, reg, held, ret, handler, acc, scope>>
managerVars == <<next_to_evict_, implementation_, evict, choose>>
numaVars == <<machine, numa, parse>>
cmpxchgVars == <<word, cmpxchg>>
traceVars == <<stt, added>>
\* what the slab primitives never touch
otherVars == <<managerVars, numaVars, cmpxchgVars, traceVars>>
\* what the manager never touches, what the topology builder never touches,
\* what PerCpuCmpxchg64 never touches
nonManagerVars == <<slabVars, numaVars, cmpxchgVars, traceVars>>
nonNumaVars == <<slabVars, managerVars, cmpxchgVars, traceVars>>
nonCmpxchgVars == <<slabVars, managerVars, numaVars, traceVars>>
\* what AddTrace never touches
nonTraceVars == <<slabVars, managerVars, numaVars, cmpxchgVars>>

vars == <<slabVars, otherVars>>

\* no call of DetermineSizeClassToEvict: arg is current_size_class, t the
\* local t, asked the classes HasSpareCapacity was called for, probes the
\* stores to the cursor
NoEvict ==
  [pc |-> "idle", ret |-> 0, arg |-> 0, t |-> 0, asked |-> << >>, probes |-> 0]
\* no call of ChooseImplementation: forced is IsExperimentActive(...), env
\* the environment variable, e what getenv gave
NoChoose ==
  [pc |-> "idle", ret |-> "none", forced |-> FALSE,
   env |-> [set |-> FALSE, val |-> << >>], e |-> [null |-> TRUE, str |-> << >>]]

\* the manager outside the specifications of the manager
ManagerIdle ==
  /\ next_to_evict_ = 1
  /\ implementation_ = "None"
  /\ evict = [t \in Threads |-> NoEvict]
  /\ choose = NoChoose

\* no call of ParseCpulist: list is what the file was written from, text the
\* file behind the reader and pos the bytes it has delivered; buf holds the
\* bytes of the buffer in use, the string_view current; rc is what the last
\* read gave
NoParse ==
  [pc |-> "idle", set |-> {}, list |-> << >>, text |-> << >>, pos |-> 0,
   buf |-> << >>, rc |-> 0, cpu_from |-> -1]

\* the machine InitNumaTopology runs on: nodes 0 .. nodes - 1 exist, layout
\* says which CPUs they have; env is TCMALLOC_NUMA_AWARE, fast is
\* subtle::percpu::IsFast(), want is default_want_numa_aware()
NoMachine ==
  [env |-> [set |-> FALSE, val |-> ""], nodes |-> 0, layout |-> 0,
   fast |-> FALSE, want |-> FALSE]
\* the CPU numbers of the machines
CpuIds == 0 .. (2 * (MaxNodes + ManyNodes) + 1)
\* no call of InitNumaTopology: the arguments, zero-initialized tables, the
\* locals node, partition and numa_aware, and opened, the nodes whose
\* cpulist open_node_cpulist has opened
NoNuma ==
  [pc |-> "idle", ret |-> "none", num_partitions |-> 1, scale_by |-> 1,
   bind_mode |-> "kAdvisory",
   partition_to_nodes |-> [p \in 0 .. (MaxPartitions - 1) |-> {}],
   cpu_to_scaled_partition |-> [c \in CpuIds |-> 0],
   node |-> 0, partition |-> 0, numa_aware |-> FALSE, opened |-> {}]
NumaIdle ==
  /\ machine = NoMachine
  /\ numa = NoNuma
  /\ parse = NoParse

NoOp == [cl |-> 0, p |-> Null, kind |-> "none", len |-> 0]
\* cpu: x8; cur: the index register (x12 / x9 / x13); lim: begin or end
\* (x11 / x10); n: the amount moved (x10 / x11); bi: the position in the
\* caller's array (x11 / x12); stop: where the loop ends (x14);
\* val: the word loaded (x4 / x3 / x12 / x10)
\* new: the index to commit (x13 / x9)
NoReg ==
  [cpu |-> 0, val |-> Null, cur |-> 0, lim |-> 0, n |-> 0, bi |-> 0, stop |-> 0,
   new |-> 0]
NoHandler == [arg |-> 0, n |-> 0]
NoRet == [val |-> 0, kind |-> "none"]

(* ------------------------ restartable sequences ------------------------- *)
\* The labels between .L<fn>_start and .L<fn>_commit.  The no_capacity and
\* no_items labels lie behind the commit label, outside the section.
CSLabels ==
  { "push_start", "push_ld_cur", "push_ld_end", "push_st_slot", "push_st_cur",
    "pop_start", "pop_ld_cur", "pop_ld_begin", "pop_ld_slot", "pop_st_cur",
    "pushb_start", "pushb_ld_cur", "pushb_ld_end", "pushb_loop", "pushb_st_cur",
    "popb_start", "popb_ld_cur", "popb_ld_begin", "popb_loop", "popb_st_cur" }

\* a section whose end stands behind the ret, so that a call that has
\* committed can be restarted
InCSPastCommit(l) == l \in CSLabels \cup {"done"}

\* a section whose commit label stands one instruction early, before the
\* final index store
InCSCommitEarly(l) ==
  l \in CSLabels \ {"push_st_cur", "pop_st_cur", "pushb_st_cur", "popb_st_cur"}

InCS(l) == l \in CSLabels

\* The abort trampoline branches to .L<fn>_abort, which re-registers the
\* section and falls into .L<fn>_start.
StartOf(kind) ==
  CASE kind = "Push" -> "push_start"
    [] kind = "Pop" -> "pop_start"
    [] kind = "PushBatch" -> "pushb_start"
    [] kind = "PopBatch" -> "popb_start"

\* a kernel that resumes every thread where it stood
NotAborted(u) == [pc |-> pc[u], reg |-> reg[u]]

\* Thread u after the kernel switched it out: inside a section it resumes
\* at the section's entry, which loads every register again.
Aborted(u) ==
  IF InCS(pc[u])
    THEN [pc |-> StartOf(op[u].kind), reg |-> NoReg]
    ELSE [pc |-> pc[u], reg |-> reg[u]]

\* Thread t executes an instruction of a section on its CPU: every other
\* thread of that CPU was switched out before.
Runs(t, newpc, newreg) ==
  /\ pc' = [u \in Threads |->
              IF u = t THEN newpc
              ELSE IF cpu[u] = cpu[t] THEN Aborted(u).pc ELSE pc[u]]
  /\ reg' = [u \in Threads |->
              IF u = t THEN newreg
              ELSE IF cpu[u] = cpu[t] THEN Aborted(u).reg ELSE reg[u]]

Header(c, cl) == hdr[c][cl]

\* a header address computed without the CPU's offset
StoreCurrentCpu0(c, cl, v) == [hdr EXCEPT ![0][cl].current = Trunc16(v)]

\* str instead of strh: the store covers the whole header word
StoreCurrentWide(c, cl, v) ==
  [hdr EXCEPT ![c][cl] = [current |-> Trunc16(v), begin |-> 0, end |-> 0]]

StoreCurrent(c, cl, v) == [hdr EXCEPT ![c][cl].current = Trunc16(v)]

\* a store one slot too high
StoreSlotAbove(c, i, v) == [slots EXCEPT ![c][i + 1] = v]

StoreSlot(c, i, v) == [slots EXCEPT ![c][i] = v]

(* ------------------------------- Init ----------------------------------- *)
EmptyHdr == [c \in Cpus |-> [cl \in Classes |->
               [current |-> Begin(cl), begin |-> Begin(cl), end |-> End(cl)]]]

\* no call of PerCpuCmpxchg64: cpu_id is __rseq_abi.cpu_id (vcpu_id for the
\* _VCPU variant), x4 the id the section fetched, x6 the word it loaded
NoCmpxchg ==
  [pc |-> "idle", ret |-> 0, cpu_id |-> 0, target_cpu |-> 0, old_val |-> 0,
   new_val |-> 0, x4 |-> 0, x6 |-> 0]
CmpxchgIdle ==
  /\ word = [c \in Cpus |-> 0]
  /\ cmpxchg = [t \in Threads |-> NoCmpxchg]

\* StackTraceTable(type, period, merge, unsample): the table has
\* bucket_mask_ + 1 slots, all null; table_ maps the slots that are not null
\* to their chains, the head first. type_, period_ and unsample_ are read by
\* Iterate only.
NewStackTraceTable(merge) ==
  [bucket_mask_ |-> IF merge THEN 2^14 - 1 ELSE 0,
   depth_total_ |-> 0,
   table_ |-> << >>,
   bucket_total_ |-> 0,
   merge_ |-> merge,
   error_ |-> FALSE]
\* a table nobody adds to
TraceIdle ==
  /\ stt = NewStackTraceTable(FALSE)
  /\ added = [calls |-> 0, traces |-> {}]

InitSlab ==
  /\ hdr = EmptyHdr
  /\ slots = [c \in Cpus |-> [i \in Words |-> Null]]
  /\ pc = [t \in Threads |-> "idle"]
  /\ op = [t \in Threads |-> NoOp]
  /\ batch = [t \in Threads |-> << >>]
  /\ reg = [t \in Threads |-> NoReg]
  /\ ret = [t \in Threads |-> NoRet]
  /\ handler = [t \in Threads |-> NoHandler]

InitCommon ==
  /\ InitSlab
  /\ ManagerIdle
  /\ NumaIdle
  /\ CmpxchgIdle
  /\ TraceIdle

FirstThread == CHOOSE t \in Threads : \A u \in Threads : t <= u
AllOps == {"Push", "Pop", "PushBatch", "PopBatch"}

\* The workloads: all threads running every primitive on the smallest size
\* class, all threads running Push and Pop on one of the larger classes, one
\* thread running every primitive on all size classes.
Workloads ==
  {[thr |-> Threads, cls |-> {0}, ops |-> AllOps]}
    \cup {[thr |-> Threads, cls |-> {cl}, ops |-> {"Push", "Pop"}] :
            cl \in Classes \ {0}}
    \cup {[thr |-> {FirstThread}, cls |-> Classes, ops |-> AllOps]}

Init ==
  /\ InitCommon
  /\ acc = [on |-> FALSE, push |-> 0, pop |-> 0, stack |-> << >>, top |-> Null]
  /\ scope \in Workloads
  /\ cpu \in [Threads -> Cpus]
  /\ \A t \in Threads : t \notin scope.thr => cpu[t] = 0
  /\ held = [t \in Threads |->
               IF scope.thr = Threads
                 THEN {p \in Ptrs : (p % NumThreads) + 1 = t}
                 ELSE IF t = FirstThread THEN Ptrs ELSE {}]

(* ------------------------------ helpers ---------------------------------- *)
Min(a, b) == IF a <= b THEN a ELSE b

\* the arrays of n distinct pointers taken from S
ArraysOf(S, n) ==
  {s \in [1 .. n -> S] : \A i, j \in 1 .. n : s[i] = s[j] => i = j}

\* word i (counted from 0) of the caller's array
BatchWord(t, i) == IF i + 1 \in DOMAIN batch[t] THEN batch[t][i + 1] ELSE Null

\* a load one slot too low
SlabWordBelow(c, i) == IF i - 1 \in Words THEN slots[c][i - 1] ELSE Null

SlabWord(c, i) == IF i \in Words THEN slots[c][i] ELSE Null

\* the counters of the sequential specification
AccPush(p) ==
  IF acc.on
    THEN [acc EXCEPT !.push = @ + 1, !.stack = Append(@, p)]
    ELSE acc
AccPop ==
  IF acc.on
    THEN [acc EXCEPT !.pop = @ + 1,
                     !.top = IF Len(acc.stack) > 0
                               THEN acc.stack[Len(acc.stack)] ELSE Null,
                     !.stack = IF Len(@) > 0 THEN SubSeq(@, 1, Len(@) - 1) ELSE @]
    ELSE acc

(* ------------------------------- calls ----------------------------------- *)
Enter(t, o, b) ==
  /\ pc[t] = "idle"
  /\ t \in scope.thr
  /\ o.cl \in scope.cls
  /\ o.kind \in scope.ops
  /\ op' = [op EXCEPT ![t] = o]
  /\ batch' = [batch EXCEPT ![t] = b]
  /\ pc' = [pc EXCEPT ![t] = StartOf(o.kind)]
  /\ UNCHANGED <<hdr, slots, cpu, reg, held, ret, handler, acc,
               scope, otherVars>>

CallPush(t, cl, p) ==
  /\ p \in held[t]
  /\ acc.on => acc.push < MaxOps
  /\ Enter(t, [cl |-> cl, p |-> p, kind |-> "Push", len |-> 0], << >>)

CallPop(t, cl) ==
  Enter(t, [cl |-> cl, p |-> Null, kind |-> "Pop", len |-> 0], << >>)

CallPushBatch(t, cl, b) ==
  Enter(t, [cl |-> cl, p |-> Null, kind |-> "PushBatch", len |-> Len(b)], b)

CallPopBatch(t, cl, n) ==
  Enter(t, [cl |-> cl, p |-> Null, kind |-> "PopBatch", len |-> n],
        [i \in 1 .. n |-> Null])

\* ret: the caller takes the result and is ready for its next call
Return(t) ==
  /\ pc[t] = "done"
  /\ pc' = [pc EXCEPT ![t] = "idle"]
  /\ op' = [op EXCEPT ![t] = NoOp]
  /\ batch' = [batch EXCEPT ![t] = << >>]
  /\ reg' = [reg EXCEPT ![t] = NoReg]
  /\ ret' = [ret EXCEPT ![t] = NoRet]
  /\ handler' = [handler EXCEPT ![t] = NoHandler]
  /\ UNCHANGED <<hdr, slots, cpu, held, acc, scope, otherVars>>

(* ------------------------ TcmallocSlab_Internal_Push --------------------- *)
Push_FETCH_CPU(t) ==
  /\ pc[t] = "push_start"
  /\ Runs(t, "push_ld_cur", [NoReg EXCEPT !.cpu = cpu[t]])
  /\ UNCHANGED <<hdr, slots, cpu, op, batch, held, ret, handler, acc,
               scope, otherVars>>

Push_ldrh_current(t) ==
  /\ pc[t] = "push_ld_cur"
  /\ Runs(t, "push_ld_end",
          [reg[t] EXCEPT !.cur = Header(reg[t].cpu, op[t].cl).current])
  /\ UNCHANGED <<hdr, slots, cpu, op, batch, held, ret, handler, acc,
               scope, otherVars>>

\* blt instead of ble
PushHasNoCapacityStrict(end, current) == end < current

\* ldrh w11, [x10, #6]; cmp w11, w12; ble no_capacity
PushHasNoCapacity(end, current) == end <= current

Push_ldrh_end(t) ==
  /\ pc[t] = "push_ld_end"
  /\ LET end == Header(reg[t].cpu, op[t].cl).end IN
       Runs(t,
            IF PushHasNoCapacity(end, reg[t].cur)
              THEN "push_no_capacity" ELSE "push_st_slot",
            [reg[t] EXCEPT !.lim = end])
  /\ UNCHANGED <<hdr, slots, cpu, op, batch, held, ret, handler, acc,
               scope, otherVars>>

\* str x2, [x9, x12, LSL #3]; add w12, w12, #1
Push_str_slot(t) ==
  /\ pc[t] = "push_st_slot"
  /\ slots' = StoreSlot(reg[t].cpu, reg[t].cur, op[t].p)
  /\ Runs(t, "push_st_cur", [reg[t] EXCEPT !.cur = @ + 1])
  /\ UNCHANGED <<hdr, cpu, op, batch, held, ret, handler, acc,
               scope, otherVars>>

\* strh w12, [x10]; the commit; mov x0, x8; ret
Push_strh_current(t) ==
  /\ pc[t] = "push_st_cur"
  /\ hdr' = StoreCurrent(reg[t].cpu, op[t].cl, reg[t].cur)
  /\ Runs(t, "done", NoReg)
  /\ ret' = [ret EXCEPT ![t] = [val |-> reg[t].cpu, kind |-> "cpu"]]
  /\ held' = [held EXCEPT ![t] = @ \ {op[t].p}]
  /\ acc' = AccPush(op[t].p)
  /\ UNCHANGED <<slots, cpu, op, batch, handler, scope, otherVars>>

\* mov x0, x8; TAILCALL(x4): the overflow handler gets the CPU id
Push_no_capacity(t) ==
  /\ pc[t] = "push_no_capacity"
  /\ handler' = [handler EXCEPT ![t] = [arg |-> reg[t].cpu, n |-> @.n + 1]]
  /\ ret' = [ret EXCEPT ![t] = [val |-> reg[t].cpu, kind |-> "overflow"]]
  /\ pc' = [pc EXCEPT ![t] = "done"]
  /\ reg' = [reg EXCEPT ![t] = NoReg]
  /\ UNCHANGED <<hdr, slots, cpu, op, batch, held, acc, scope, otherVars>>

(* ------------------------ TcmallocSlab_Internal_Pop ---------------------- *)
Pop_FETCH_CPU(t) ==
  /\ pc[t] = "pop_start"
  /\ Runs(t, "pop_ld_cur", [NoReg EXCEPT !.cpu = cpu[t]])
  /\ UNCHANGED <<hdr, slots, cpu, op, batch, held, ret, handler, acc,
               scope, otherVars>>

Pop_ldrh_current(t) ==
  /\ pc[t] = "pop_ld_cur"
  /\ Runs(t, "pop_ld_begin",
          [reg[t] EXCEPT !.cur = Header(reg[t].cpu, op[t].cl).current])
  /\ UNCHANGED <<hdr, slots, cpu, op, batch, held, ret, handler, acc,
               scope, otherVars>>

\* bgt instead of bge
PopHasNoItemsStrict(begin, current) == begin > current

\* ldrh w11, [x10, #4]; cmp w11, w12; bge no_items
PopHasNoItems(begin, current) == begin >= current

\* a Pop that forgets the decrement
PopIndexNotDecremented(current) == current

\* sub w12, w12, #1
PopIndex(current) == current - 1

Pop_ldrh_begin(t) ==
  /\ pc[t] = "pop_ld_begin"
  /\ LET begin == Header(reg[t].cpu, op[t].cl).begin IN
       IF PopHasNoItems(begin, reg[t].cur)
         THEN Runs(t, "pop_no_items", [reg[t] EXCEPT !.lim = begin])
         ELSE Runs(t, "pop_ld_slot",
                   [reg[t] EXCEPT !.lim = begin, !.cur = PopIndex(@)])
  /\ UNCHANGED <<hdr, slots, cpu, op, batch, held, ret, handler, acc,
               scope, otherVars>>

\* ldr x4, [x9, x12, LSL #3]
Pop_ldr_slot(t) ==
  /\ pc[t] = "pop_ld_slot"
  /\ Runs(t, "pop_st_cur",
          [reg[t] EXCEPT !.val = SlabWord(reg[t].cpu, reg[t].cur)])
  /\ UNCHANGED <<hdr, slots, cpu, op, batch, held, ret, handler, acc,
               scope, otherVars>>

\* strh w12, [x10]; the commit; mov x0, x4; ret
Pop_strh_current(t) ==
  /\ pc[t] = "pop_st_cur"
  /\ hdr' = StoreCurrent(reg[t].cpu, op[t].cl, reg[t].cur)
  /\ Runs(t, "done", NoReg)
  /\ ret' = [ret EXCEPT ![t] = [val |-> reg[t].val, kind |-> "ptr"]]
  /\ held' = [held EXCEPT ![t] = @ \cup {reg[t].val}]
  /\ acc' = AccPop
  /\ UNCHANGED <<slots, cpu, op, batch, handler, scope, otherVars>>

\* mov x0, x8; TAILCALL(x2): the underflow handler gets the CPU id
Pop_no_items(t) ==
  /\ pc[t] = "pop_no_items"
  /\ handler' = [handler EXCEPT ![t] = [arg |-> reg[t].cpu, n |-> @.n + 1]]
  /\ ret' = [ret EXCEPT ![t] = [val |-> reg[t].cpu, kind |-> "underflow"]]
  /\ pc' = [pc EXCEPT ![t] = "done"]
  /\ reg' = [reg EXCEPT ![t] = NoReg]
  /\ UNCHANGED <<hdr, slots, cpu, op, batch, held, acc, scope, otherVars>>

(* ---------------- TcmallocSlab_Internal_PushBatch_FixedShift ------------- *)
PushBatch_FETCH_CPU(t) ==
  /\ pc[t] = "pushb_start"
  /\ Runs(t, "pushb_ld_cur", [NoReg EXCEPT !.cpu = cpu[t]])
  /\ UNCHANGED <<hdr, slots, cpu, op, batch, held, ret, handler, acc,
               scope, otherVars>>

PushBatch_ldrh_current(t) ==
  /\ pc[t] = "pushb_ld_cur"
  /\ Runs(t, "pushb_ld_end",
          [reg[t] EXCEPT !.cur = Header(reg[t].cpu, op[t].cl).current])
  /\ UNCHANGED <<hdr, slots, cpu, op, batch, held, ret, handler, acc,
               scope, otherVars>>

\* a PushBatch that does not look at the capacity left
PushBatchAmountAll(len, current, end) == len

\* sub w10, w10, w9; cmp w3, w10; csel w10, w3, w10, ls
PushBatchAmount(len, current, end) == Min(len, end - current)

\* ldrh w10, [x4, #6]; cmp w9, w10; bge no_capacity; add x11, x2, x3, LSL #3;
\* ...; add x13, x9, x10; add x9, x8, x9, LSL #3; add x14, x8, x13, LSL #3
PushBatch_ldrh_end(t) ==
  /\ pc[t] = "pushb_ld_end"
  /\ LET end == Header(reg[t].cpu, op[t].cl).end
         n == PushBatchAmount(op[t].len, reg[t].cur, end)
     IN IF reg[t].cur >= end
          THEN Runs(t, "pushb_no_capacity", [reg[t] EXCEPT !.lim = end])
          ELSE Runs(t, "pushb_loop",
                    [reg[t] EXCEPT !.lim = end, !.bi = op[t].len, !.n = n,
                                   !.new = reg[t].cur + n,
                                   !.stop = reg[t].cur + n])
  /\ UNCHANGED <<hdr, slots, cpu, op, batch, held, ret, handler, acc,
               scope, otherVars>>

\* a PushBatch that walks the caller's array from its first word
PushBatchSourceForward(len, k) == k

\* the word of the caller's array that goes to the k-th slot written, for an
\* array of len words: ldr x12, [x11, #-8]! with x11 starting at batch + len
PushBatchSource(len, k) == len - 1 - k

\* ldr x12, [x11, #-8]!; str x12, [x9], #8; cmp x9, x14; bne loop
\* The loop tests x9 after its first store.  A load outside the caller's
\* array gives whatever stands there; a store behind the last word of the
\* CPU's region leaves the memory that hdr and slots stand for, and what
\* becomes of the call from there on is "out_of_region".
PushBatch_loop(t) ==
  /\ pc[t] = "pushb_loop"
  /\ LET k == op[t].len - reg[t].bi
         i == PushBatchSource(op[t].len, k)
     IN \E w \in IF i + 1 \in DOMAIN batch[t] THEN {BatchWord(t, i)}
                 ELSE Ptrs \cup {Null} :
          IF reg[t].cur \in Words
            THEN /\ slots' = StoreSlot(reg[t].cpu, reg[t].cur, w)
                 /\ Runs(t,
                         IF reg[t].cur + 1 /= reg[t].stop
                           THEN "pushb_loop" ELSE "pushb_st_cur",
                         [reg[t] EXCEPT !.bi = @ - 1, !.val = w, !.cur = @ + 1])
            ELSE /\ slots' = slots
                 /\ Runs(t, "out_of_region", reg[t])
  /\ UNCHANGED <<hdr, cpu, op, batch, held, ret, handler, acc,
               scope, otherVars>>

\* the entries of the caller's array the loop has taken
PushBatchTaken(t) ==
  {BatchWord(t, i) : i \in reg[t].bi .. (op[t].len - 1)}

\* strh w13, [x4]; the commit; mov x0, x10; ret
PushBatch_strh_current(t) ==
  /\ pc[t] = "pushb_st_cur"
  /\ hdr' = StoreCurrent(reg[t].cpu, op[t].cl, reg[t].new)
  /\ Runs(t, "done", NoReg)
  /\ ret' = [ret EXCEPT ![t] = [val |-> reg[t].n, kind |-> "count"]]
  /\ held' = [held EXCEPT ![t] = @ \ PushBatchTaken(t)]
  /\ UNCHANGED <<slots, cpu, op, batch, handler, acc, scope, otherVars>>

\* mov x0, #0; ret
PushBatch_no_capacity(t) ==
  /\ pc[t] = "pushb_no_capacity"
  /\ ret' = [ret EXCEPT ![t] = [val |-> 0, kind |-> "count"]]
  /\ pc' = [pc EXCEPT ![t] = "done"]
  /\ reg' = [reg EXCEPT ![t] = NoReg]
  /\ UNCHANGED <<hdr, slots, cpu, op, batch, held, handler, acc,
               scope, otherVars>>

(* ---------------- TcmallocSlab_Internal_PopBatch_FixedShift -------------- *)
PopBatch_FETCH_CPU(t) ==
  /\ pc[t] = "popb_start"
  /\ Runs(t, "popb_ld_cur", [NoReg EXCEPT !.cpu = cpu[t]])
  /\ UNCHANGED <<hdr, slots, cpu, op, batch, held, ret, handler, acc,
               scope, otherVars>>

PopBatch_ldrh_current(t) ==
  /\ pc[t] = "popb_ld_cur"
  /\ Runs(t, "popb_ld_begin",
          [reg[t] EXCEPT !.cur = Header(reg[t].cpu, op[t].cl).current])
  /\ UNCHANGED <<hdr, slots, cpu, op, batch, held, ret, handler, acc,
               scope, otherVars>>

\* a PopBatch that does not look at the number of objects present
PopBatchAmountAll(len, current, begin) == len

\* sub w11, w9, w10; cmp w3, w11; csel w11, w3, w11, ls
PopBatchAmount(len, current, begin) == Min(len, current - begin)

\* ldrh w10, [x4, #4]; cmp w10, w9; bhs no_items; ...; add x13, x8, x9, LSL #3;
\* sub x9, x9, x11; mov x12, x2; add x14, x2, x11, LSL #3
PopBatch_ldrh_begin(t) ==
  /\ pc[t] = "popb_ld_begin"
  /\ LET begin == Header(reg[t].cpu, op[t].cl).begin
         n == PopBatchAmount(op[t].len, reg[t].cur, begin)
     IN IF begin >= reg[t].cur
          THEN Runs(t, "popb_no_items", [reg[t] EXCEPT !.lim = begin])
          ELSE Runs(t, "popb_loop",
                    [reg[t] EXCEPT !.lim = begin, !.bi = 0, !.n = n,
                                   !.new = reg[t].cur - n, !.stop = n])
  /\ UNCHANGED <<hdr, slots, cpu, op, batch, held, ret, handler, acc,
               scope, otherVars>>

\* a store to the caller's array that moves the pointer first
PopBatchDestPreIndexed(k) == k + 1

\* the word of the caller's array (counted from 0) the k-th load goes to:
\* str x10, [x12], #8 with x12 starting at batch
PopBatchDest(k) == k

\* ldr x10, [x13, #-8]!; str x10, [x12], #8; cmp x12, x14; bne loop
\* The loop tests x12 after its first store.  A store behind the caller's
\* array lands in the word that follows it, which batch[t] then shows as an
\* entry past op[t].len; a load below the first word of the CPU's region
\* leaves the memory that hdr and slots stand for ("out_of_region").
PopBatch_loop(t) ==
  /\ pc[t] = "popb_loop"
  /\ LET w == SlabWord(reg[t].cpu, reg[t].cur - 1)
         d == PopBatchDest(reg[t].bi)
     IN IF reg[t].cur - 1 \in Words
          THEN /\ batch' = [batch EXCEPT ![t] =
                              IF d + 1 > Len(@) THEN Append(@, w)
                              ELSE [i \in DOMAIN @ |->
                                      IF i = d + 1 THEN w ELSE @[i]]]
               /\ Runs(t,
                       IF reg[t].bi + 1 /= reg[t].stop
                         THEN "popb_loop" ELSE "popb_st_cur",
                       [reg[t] EXCEPT !.cur = @ - 1, !.val = w, !.bi = @ + 1])
          ELSE /\ batch' = batch
               /\ Runs(t, "out_of_region", reg[t])
  /\ UNCHANGED <<hdr, slots, cpu, op, held, ret, handler, acc,
               scope, otherVars>>

\* strh w9, [x4]; the commit; mov x0, x11; ret
PopBatch_strh_current(t) ==
  /\ pc[t] = "popb_st_cur"
  /\ hdr' = StoreCurrent(reg[t].cpu, op[t].cl, reg[t].new)
  /\ Runs(t, "done", NoReg)
  /\ ret' = [ret EXCEPT ![t] = [val |-> reg[t].n, kind |-> "count"]]
  /\ held' = [held EXCEPT ![t] =
                @ \cup {BatchWord(t, i) : i \in 0 .. (reg[t].n - 1)}]
  /\ UNCHANGED <<slots, cpu, op, batch, handler, acc, scope, otherVars>>

\* mov x0, #0; ret
PopBatch_no_items(t) ==
  /\ pc[t] = "popb_no_items"
  /\ ret' = [ret EXCEPT ![t] = [val |-> 0, kind |-> "count"]]
  /\ pc' = [pc EXCEPT ![t] = "done"]
  /\ reg' = [reg EXCEPT ![t] = NoReg]
  /\ UNCHANGED <<hdr, slots, cpu, op, batch, held, handler, acc,
               scope, otherVars>>

(* --------------------------- the scheduler ------------------------------- *)
\* A signal, or a thread of another process taking the CPU: the kernel
\* restarts a thread it finds inside a section.
Preempt(t) ==
  /\ InCS(pc[t])
  /\ pc[t] /= StartOf(op[t].kind)
  /\ pc' = [pc EXCEPT ![t] = Aborted(t).pc]
  /\ reg' = [reg EXCEPT ![t] = Aborted(t).reg]
  /\ UNCHANGED <<hdr, slots, cpu, op, batch, held, ret, handler, acc,
               scope, otherVars>>

\* The thread continues on CPU c.
Migrate(t, c) ==
  /\ t \in scope.thr
  /\ c /= cpu[t]
  /\ cpu' = [cpu EXCEPT ![t] = c]
  /\ pc' = [pc EXCEPT ![t] = Aborted(t).pc]
  /\ reg' = [reg EXCEPT ![t] = Aborted(t).reg]
  /\ UNCHANGED <<hdr, slots, op, batch, held, ret, handler, acc,
               scope, otherVars>>

(* ----------------------------- specification ----------------------------- *)
Next ==
  \/ \E t \in Threads, cl \in Classes : \E p \in Ptrs : CallPush(t, cl, p)
  \/ \E t \in Threads, cl \in Classes : CallPop(t, cl)
  \/ \E t \in Threads, cl \in Classes : \E n \in 1 .. MaxBatch :
       \E b \in ArraysOf(held[t], n) : CallPushBatch(t, cl, b)
  \/ \E t \in Threads, cl \in Classes : \E n \in 1 .. MaxBatch :
       CallPopBatch(t, cl, n)
  \/ \E t \in Threads : Return(t)
  \/ \E t \in Threads : Push_FETCH_CPU(t)
  \/ \E t \in Threads : Push_ldrh_current(t)
  \/ \E t \in Threads : Push_ldrh_end(t)
  \/ \E t \in Threads : Push_str_slot(t)
  \/ \E t \in Threads : Push_strh_current(t)
  \/ \E t \in Threads : Push_no_capacity(t)
  \/ \E t \in Threads : Pop_FETCH_CPU(t)
  \/ \E t \in Threads : Pop_ldrh_current(t)
  \/ \E t \in Threads : Pop_ldrh_begin(t)
  \/ \E t \in Threads : Pop_ldr_slot(t)
  \/ \E t \in Threads : Pop_strh_current(t)
  \/ \E t \in Threads : Pop_no_items(t)
  \/ \E t \in Threads : PushBatch_FETCH_CPU(t)
  \/ \E t \in Threads : PushBatch_ldrh_current(t)
  \/ \E t \in Threads : PushBatch_ldrh_end(t)
  \/ \E t \in Threads : PushBatch_loop(t)
  \/ \E t \in Threads : PushBatch_strh_current(t)
  \/ \E t \in Threads : PushBatch_no_capacity(t)
  \/ \E t \in Threads : PopBatch_FETCH_CPU(t)
  \/ \E t \in Threads : PopBatch_ldrh_current(t)
  \/ \E t \in Threads : PopBatch_ldrh_begin(t)
  \/ \E t \in Threads : PopBatch_loop(t)
  \/ \E t \in Threads : PopBatch_strh_current(t)
  \/ \E t \in Threads : PopBatch_no_items(t)
  \/ \E t \in Threads : Preempt(t)
  \/ \E t \in Threads, c \in Cpus : Migrate(t, c)

Spec == Init /\ [][Next]_vars

(* ---- one thread running Push and Pop on one (CPU, class), counted -------- *)
SeqClass == NumClasses - 1
\* one pointer more than the class has room for
SeqPtrs == 1 .. (Capacity(SeqClass) + 1)

InitSeq ==
  /\ InitCommon
  /\ acc = [on |-> TRUE, push |-> 0, pop |-> 0, stack |-> << >>, top |-> Null]
  /\ scope = [thr |-> {FirstThread}, cls |-> {SeqClass}, ops |-> {"Push", "Pop"}]
  /\ cpu = [t \in Threads |-> 0]
  /\ held = [t \in Threads |-> IF t = FirstThread THEN SeqPtrs ELSE {}]

NextSeq ==
  \/ \E p \in SeqPtrs : CallPush(FirstThread, SeqClass, p)
  \/ CallPop(FirstThread, SeqClass)
  \/ Return(FirstThread)
  \/ Push_FETCH_CPU(FirstThread)
  \/ Push_ldrh_current(FirstThread)
  \/ Push_ldrh_end(FirstThread)
  \/ Push_str_slot(FirstThread)
  \/ Push_strh_current(FirstThread)
  \/ Push_no_capacity(FirstThread)
  \/ Pop_FETCH_CPU(FirstThread)
  \/ Pop_ldrh_current(FirstThread)
  \/ Pop_ldrh_begin(FirstThread)
  \/ Pop_ldr_slot(FirstThread)
  \/ Pop_strh_current(FirstThread)
  \/ Pop_no_items(FirstThread)
  \/ Preempt(FirstThread)

SpecSeq == InitSeq /\ [][NextSeq]_vars

(* ---- one thread: PushBatch of k pointers, then PopBatch of k at once ----- *)
\* Pushes and pops bring the class to some fill level; then a PushBatch that
\* fits is followed at once by a PopBatch of the same length.  acc keeps the
\* array pushed and the header before the push.
InitRoundTrip ==
  /\ InitCommon
  /\ acc = [on |-> FALSE, push |-> 0, pop |-> 0, stack |-> << >>, top |-> Null,
            phase |-> "fill", pushed |-> << >>,
            before |-> EmptyHdr[0][SeqClass]]
  /\ scope = [thr |-> {FirstThread}, cls |-> {SeqClass}, ops |-> AllOps]
  /\ cpu = [t \in Threads |-> 0]
  /\ held = [t \in Threads |-> IF t = FirstThread THEN SeqPtrs ELSE {}]

RoundTripPushBatch(t, b) ==
  /\ acc.phase = "fill"
  /\ pc[t] = "idle"
  /\ Len(b) <= Header(cpu[t], SeqClass).end - Header(cpu[t], SeqClass).current
  /\ op' = [op EXCEPT ![t] =
              [cl |-> SeqClass, p |-> Null, kind |-> "PushBatch", len |-> Len(b)]]
  /\ batch' = [batch EXCEPT ![t] = b]
  /\ pc' = [pc EXCEPT ![t] = "pushb_start"]
  /\ acc' = [acc EXCEPT !.phase = "push", !.pushed = b,
                        !.before = Header(cpu[t], SeqClass)]
  /\ UNCHANGED <<hdr, slots, cpu, reg, held, ret, handler, scope, otherVars>>

RoundTripPopBatch(t) ==
  /\ acc.phase = "push"
  /\ pc[t] = "done"
  /\ op' = [op EXCEPT ![t] =
              [cl |-> SeqClass, p |-> Null, kind |-> "PopBatch",
               len |-> Len(acc.pushed)]]
  /\ batch' = [batch EXCEPT ![t] = [i \in 1 .. Len(acc.pushed) |-> Null]]
  /\ pc' = [pc EXCEPT ![t] = "popb_start"]
  /\ ret' = [ret EXCEPT ![t] = NoRet]
  /\ acc' = [acc EXCEPT !.phase = "pop"]
  /\ UNCHANGED <<hdr, slots, cpu, reg, held, handler, scope, otherVars>>

RoundTripDone(t) ==
  /\ acc.phase = "pop"
  /\ pc[t] = "done"
  /\ pc' = [pc EXCEPT ![t] = "idle"]
  /\ op' = [op EXCEPT ![t] = NoOp]
  /\ batch' = [batch EXCEPT ![t] = << >>]
  /\ ret' = [ret EXCEPT ![t] = NoRet]
  /\ acc' = [acc EXCEPT !.phase = "fill", !.pushed = << >>]
  /\ UNCHANGED <<hdr, slots, cpu, reg, held, handler, scope, otherVars>>

\* A PushBatch that fits never takes the no_capacity exit, and the PopBatch
\* behind it never the no_items exit.
NextRoundTrip ==
  \/ \E p \in SeqPtrs : acc.phase = "fill" /\ CallPush(FirstThread, SeqClass, p)
  \/ acc.phase = "fill" /\ CallPop(FirstThread, SeqClass)
  \/ acc.phase = "fill" /\ Return(FirstThread)
  \/ \E n \in 1 .. MaxBatch : \E b \in ArraysOf(held[FirstThread], n) :
       RoundTripPushBatch(FirstThread, b)
  \/ RoundTripPopBatch(FirstThread)
  \/ RoundTripDone(FirstThread)
  \/ Push_FETCH_CPU(FirstThread)
  \/ Push_ldrh_current(FirstThread)
  \/ Push_ldrh_end(FirstThread)
  \/ Push_str_slot(FirstThread)
  \/ Push_strh_current(FirstThread)
  \/ Push_no_capacity(FirstThread)
  \/ Pop_FETCH_CPU(FirstThread)
  \/ Pop_ldrh_current(FirstThread)
  \/ Pop_ldrh_begin(FirstThread)
  \/ Pop_ldr_slot(FirstThread)
  \/ Pop_strh_current(FirstThread)
  \/ Pop_no_items(FirstThread)
  \/ PushBatch_FETCH_CPU(FirstThread)
  \/ PushBatch_ldrh_current(FirstThread)
  \/ PushBatch_ldrh_end(FirstThread)
  \/ PushBatch_loop(FirstThread)
  \/ PushBatch_strh_current(FirstThread)
  \/ PopBatch_FETCH_CPU(FirstThread)
  \/ PopBatch_ldrh_current(FirstThread)
  \/ PopBatch_ldrh_begin(FirstThread)
  \/ PopBatch_loop(FirstThread)
  \/ PopBatch_strh_current(FirstThread)
  \/ Preempt(FirstThread)

SpecRoundTrip == InitRoundTrip /\ [][NextRoundTrip]_vars

(* ---- one thread: batches of any length, the empty one included ----------- *)
\* Pushes and pops bring the class to any fill level; PushBatch and PopBatch
\* are called with arrays of 0 .. MaxBatch words.
InitAnyBatch ==
  /\ InitCommon
  /\ acc = [on |-> FALSE, push |-> 0, pop |-> 0, stack |-> << >>, top |-> Null]
  /\ scope = [thr |-> {FirstThread}, cls |-> {SeqClass}, ops |-> AllOps]
  /\ cpu = [t \in Threads |-> 0]
  /\ held = [t \in Threads |-> IF t = FirstThread THEN SeqPtrs ELSE {}]

NextAnyBatch ==
  \/ \E p \in SeqPtrs : CallPush(FirstThread, SeqClass, p)
  \/ CallPop(FirstThread, SeqClass)
  \/ \E n \in 0 .. MaxBatch : \E b \in ArraysOf(held[FirstThread], n) :
       CallPushBatch(FirstThread, SeqClass, b)
  \/ \E n \in 0 .. MaxBatch : CallPopBatch(FirstThread, SeqClass, n)
  \/ Return(FirstThread)
  \/ Push_FETCH_CPU(FirstThread)
  \/ Push_ldrh_current(FirstThread)
  \/ Push_ldrh_end(FirstThread)
  \/ Push_str_slot(FirstThread)
  \/ Push_strh_current(FirstThread)
  \/ Push_no_capacity(FirstThread)
  \/ Pop_FETCH_CPU(FirstThread)
  \/ Pop_ldrh_current(FirstThread)
  \/ Pop_ldrh_begin(FirstThread)
  \/ Pop_ldr_slot(FirstThread)
  \/ Pop_strh_current(FirstThread)
  \/ Pop_no_items(FirstThread)
  \/ PushBatch_FETCH_CPU(FirstThread)
  \/ PushBatch_ldrh_current(FirstThread)
  \/ PushBatch_ldrh_end(FirstThread)
  \/ PushBatch_loop(FirstThread)
  \/ PushBatch_strh_current(FirstThread)
  \/ PushBatch_no_capacity(FirstThread)
  \/ PopBatch_FETCH_CPU(FirstThread)
  \/ PopBatch_ldrh_current(FirstThread)
  \/ PopBatch_ldrh_begin(FirstThread)
  \/ PopBatch_loop(FirstThread)
  \/ PopBatch_strh_current(FirstThread)
  \/ PopBatch_no_items(FirstThread)
  \/ Preempt(FirstThread)

SpecAnyBatch == InitAnyBatch /\ [][NextAnyBatch]_vars

\* thread t executes the next instruction of the primitive it is in
SectionStep(t) ==
  \/ Push_FETCH_CPU(t) \/ Push_ldrh_current(t) \/ Push_ldrh_end(t)
  \/ Push_str_slot(t) \/ Push_strh_current(t) \/ Push_no_capacity(t)
  \/ Pop_FETCH_CPU(t) \/ Pop_ldrh_current(t) \/ Pop_ldrh_begin(t)
  \/ Pop_ldr_slot(t) \/ Pop_strh_current(t) \/ Pop_no_items(t)
  \/ PushBatch_FETCH_CPU(t) \/ PushBatch_ldrh_current(t)
  \/ PushBatch_ldrh_end(t) \/ PushBatch_loop(t)
  \/ PushBatch_strh_current(t) \/ PushBatch_no_capacity(t)
  \/ PopBatch_FETCH_CPU(t) \/ PopBatch_ldrh_current(t)
  \/ PopBatch_ldrh_begin(t) \/ PopBatch_loop(t)
  \/ PopBatch_strh_current(t) \/ PopBatch_no_items(t)

\* a thread inside a primitive is scheduled again and goes on
FairAnyBatch == SpecAnyBatch /\ WF_vars(SectionStep(FirstThread))

(* ================== TransferCacheManager (transfer_cache.cc) ============= *)
\* the slab with no thread calling, in the specifications of the manager
SlabIdle ==
  /\ InitSlab
  /\ acc = [on |-> FALSE, push |-> 0, pop |-> 0, stack |-> << >>, top |-> Null]
  /\ scope = [thr |-> {}, cls |-> {}, ops |-> {}]
  /\ cpu = [t \in Threads |-> 0]
  /\ held = [t \in Threads |-> {}]

(* ------------------------ DetermineSizeClassToEvict ---------------------- *)
\* a cursor that wraps to class 0
WrapCursorToZero(v) == IF v >= kNumClasses THEN 0 ELSE v

\* a cursor that wraps past class 1
WrapCursorToTwo(v) == IF v >= kNumClasses THEN 2 ELSE v

\* if (t >= kNumClasses) t = 1;
WrapCursor(v) == IF v >= kNumClasses THEN 1 ELSE v

\* a cursor that skips a class
CursorAfterSkipping(t) == t + 2

\* next_to_evict_.store(t + 1, ...)
CursorAfter(t) == t + 1

\* a manager that never recognises the class it evicts for
EvictsForItselfNever(impl, t, current_size_class) == FALSE

\* implementation_ == Ring and t == current_size_class: the candidate is
\* taken without a call of HasSpareCapacity
EvictsForItself(impl, t, current_size_class) ==
  impl = "Ring" /\ t = current_size_class

CallDetermineSizeClassToEvict(th, current_size_class) ==
  /\ evict[th].pc = "idle"
  /\ evict' = [evict EXCEPT ![th] =
                 [NoEvict EXCEPT !.pc = "load1", !.arg = current_size_class]]
  /\ UNCHANGED <<nonManagerVars, next_to_evict_, implementation_, choose>>

\* int t = next_to_evict_.load(relaxed); if (t >= kNumClasses) t = 1;
Evict_load1(th) ==
  /\ evict[th].pc = "load1"
  /\ evict' = [evict EXCEPT ![th].t = WrapCursor(next_to_evict_),
                            ![th].pc = "store1"]
  /\ UNCHANGED <<nonManagerVars, next_to_evict_, implementation_, choose>>

\* next_to_evict_.store(t + 1, relaxed);
Evict_store1(th) ==
  /\ evict[th].pc = "store1"
  /\ next_to_evict_' = CursorAfter(evict[th].t)
  /\ evict' = [evict EXCEPT ![th].probes = @ + 1, ![th].pc = "ask"]
  /\ UNCHANGED <<nonManagerVars, implementation_, choose>>

\* Ask nicely first.  spare is what HasSpareCapacity(t) answers when called.
Evict_ask(th, spare) ==
  /\ evict[th].pc = "ask"
  /\ LET e == evict[th] IN
       IF EvictsForItself(implementation_, e.t, e.arg)
         THEN evict' = [evict EXCEPT ![th].ret = e.t, ![th].pc = "done"]
         ELSE evict' = [evict EXCEPT
                          ![th].asked = Append(@, e.t),
                          ![th].ret = IF spare THEN e.t ELSE @,
                          ![th].pc = IF spare THEN "done" ELSE "load2"]
  /\ UNCHANGED <<nonManagerVars, next_to_evict_, implementation_, choose>>

\* But insist on the second try.
Evict_load2(th) ==
  /\ evict[th].pc = "load2"
  /\ evict' = [evict EXCEPT ![th].t = WrapCursor(next_to_evict_),
                            ![th].pc = "store2"]
  /\ UNCHANGED <<nonManagerVars, next_to_evict_, implementation_, choose>>

\* next_to_evict_.store(t + 1, relaxed); return t;
Evict_store2(th) ==
  /\ evict[th].pc = "store2"
  /\ next_to_evict_' = CursorAfter(evict[th].t)
  /\ evict' = [evict EXCEPT ![th].probes = @ + 1, ![th].ret = evict[th].t,
                            ![th].pc = "done"]
  /\ UNCHANGED <<nonManagerVars, implementation_, choose>>

\* the caller takes the class
Evict_return(th) ==
  /\ evict[th].pc = "done"
  /\ evict' = [evict EXCEPT ![th] = NoEvict]
  /\ UNCHANGED <<nonManagerVars, next_to_evict_, implementation_, choose>>

InitEvict ==
  /\ SlabIdle
  /\ NumaIdle
  /\ CmpxchgIdle
  /\ TraceIdle
  /\ next_to_evict_ = 1
  /\ implementation_ \in {"Legacy", "Ring"}
  /\ evict = [t \in Threads |-> NoEvict]
  /\ choose = NoChoose

NextEvict ==
  \/ \E th \in Threads, cl \in 0 .. (kNumClasses - 1) :
       CallDetermineSizeClassToEvict(th, cl)
  \/ \E th \in Threads : Evict_load1(th)
  \/ \E th \in Threads : Evict_store1(th)
  \/ \E th \in Threads, spare \in BOOLEAN : Evict_ask(th, spare)
  \/ \E th \in Threads : Evict_load2(th)
  \/ \E th \in Threads : Evict_store2(th)
  \/ \E th \in Threads : Evict_return(th)

SpecEvict == InitEvict /\ [][NextEvict]_vars

\* calls without overlap: one thread calls again and again, and earlier
\* calls have left the cursor at any of the values a store can give it
InitEvictSeq ==
  /\ SlabIdle
  /\ NumaIdle
  /\ CmpxchgIdle
  /\ TraceIdle
  /\ next_to_evict_ \in 1 .. kNumClasses
  /\ implementation_ \in {"Legacy", "Ring"}
  /\ evict = [t \in Threads |-> NoEvict]
  /\ choose = NoChoose

NextEvictSeq ==
  \/ \E cl \in 0 .. (kNumClasses - 1) :
       CallDetermineSizeClassToEvict(FirstThread, cl)
  \/ Evict_load1(FirstThread)
  \/ Evict_store1(FirstThread)
  \/ \E spare \in BOOLEAN : Evict_ask(FirstThread, spare)
  \/ Evict_load2(FirstThread)
  \/ Evict_store2(FirstThread)
  \/ Evict_return(FirstThread)

SpecEvictSeq == InitEvictSeq /\ [][NextEvictSeq]_vars

(* --------------------------- ChooseImplementation ------------------------ *)
EnvChars == {"0", "1", "2", "x"}
\* the values of the environment variable, the empty one included
EnvValues == UNION {[1 .. n -> EnvChars] : n \in 0 .. MaxEnvLen}

\* e[i] of a C string: the terminator stands behind the last character
CharAt(str, i) == IF i < Len(str) THEN str[i + 1] ELSE "NUL"

\* Prefer ring, if we're forcing it on.
Choose_IsExperimentActive ==
  /\ choose.pc = "start"
  /\ choose' = IF choose.forced
                 THEN [choose EXCEPT !.pc = "done", !.ret = "Ring"]
                 ELSE [choose EXCEPT !.pc = "getenv"]
  /\ UNCHANGED <<nonManagerVars, next_to_evict_, implementation_, evict>>

\* const char *e = thread_safe_getenv(...); if (e) ...
Choose_getenv ==
  /\ choose.pc = "getenv"
  /\ choose' = IF choose.env.set
                 THEN [choose EXCEPT !.e = [null |-> FALSE, str |-> choose.env.val],
                                     !.pc = "cmp0"]
                 ELSE [choose EXCEPT !.pc = "default"]
  /\ UNCHANGED <<nonManagerVars, next_to_evict_, implementation_, evict>>

\* if (e[0] == '0') return Legacy;
Choose_e0_is_0 ==
  /\ choose.pc = "cmp0"
  /\ choose' = IF CharAt(choose.e.str, 0) = "0"
                 THEN [choose EXCEPT !.pc = "done", !.ret = "Legacy"]
                 ELSE [choose EXCEPT !.pc = "cmp1"]
  /\ UNCHANGED <<nonManagerVars, next_to_evict_, implementation_, evict>>

\* if (e[0] == '1') return Ring;
Choose_e0_is_1 ==
  /\ choose.pc = "cmp1"
  /\ choose' = IF CharAt(choose.e.str, 0) = "1"
                 THEN [choose EXCEPT !.pc = "done", !.ret = "Ring"]
                 ELSE [choose EXCEPT !.pc = "crash"]
  /\ UNCHANGED <<nonManagerVars, next_to_evict_, implementation_, evict>>

\* Crash(kCrash, __FILE__, __LINE__, "bad env var", e);
Choose_Crash ==
  /\ choose.pc = "crash"
  /\ choose' = [choose EXCEPT !.pc = "crashed", !.ret = "Crash"]
  /\ UNCHANGED <<nonManagerVars, next_to_evict_, implementation_, evict>>

\* Otherwise, default to legacy.
Choose_default ==
  /\ choose.pc = "default"
  /\ choose' = [choose EXCEPT !.pc = "done", !.ret = "Legacy"]
  /\ UNCHANGED <<nonManagerVars, next_to_evict_, implementation_, evict>>

InitChoose ==
  /\ SlabIdle
  /\ NumaIdle
  /\ CmpxchgIdle
  /\ TraceIdle
  /\ next_to_evict_ = 1
  /\ implementation_ = "None"
  /\ evict = [t \in Threads |-> NoEvict]
  /\ \E forced \in BOOLEAN, set \in BOOLEAN, val \in EnvValues :
       /\ ~set => val = << >>
       /\ choose = [NoChoose EXCEPT !.pc = "start", !.forced = forced,
                                    !.env = [set |-> set, val |-> val]]

NextChoose ==
  \/ Choose_IsExperimentActive
  \/ Choose_getenv
  \/ Choose_e0_is_0
  \/ Choose_e0_is_1
  \/ Choose_Crash
  \/ Choose_default

SpecChoose == InitChoose /\ [][NextChoose]_vars

(* ------------------------------ ParseCpulist ----------------------------- *)
DigitChars == <<"0", "1", "2", "3", "4", "5", "6", "7", "8", "9">>
DigitValue(ch) == (CHOOSE d \in 1 .. 10 : DigitChars[d] = ch) - 1

\* a CPU number as the kernel writes it
RECURSIVE Decimal(_)
Decimal(n) ==
  IF n < 10 THEN <<DigitChars[n + 1]>>
  ELSE Append(Decimal(n \div 10), DigitChars[(n % 10) + 1])

\* an item of a CPU list: the single CPU lo, or the range lo-hi
Single(a) == [lo |-> a, hi |-> a, dash |-> FALSE]
Range(a, b) == [lo |-> a, hi |-> b, dash |-> TRUE]
ItemText(it) ==
  IF it.dash THEN Decimal(it.lo) \o <<"-">> \o Decimal(it.hi)
  ELSE Decimal(it.lo)
RECURSIVE ListText(_)
ListText(list) ==
  IF list = << >> THEN << >>
  ELSE IF Len(list) = 1 THEN ItemText(list[1])
  ELSE ItemText(list[1]) \o <<",">> \o ListText(Tail(list))

\* the CPU numbers the lists are written with, and the lists: up to MaxItems
\* items, long enough to fill the buffer more than once, and "0-2,5,8-9"
CpuNumbers == {0, 3, 12}
Items ==
  {Single(a) : a \in CpuNumbers}
    \cup {Range(ab[1], ab[2]) :
            ab \in {x \in CpuNumbers \X CpuNumbers : x[1] <= x[2]}}
Lists ==
  UNION {[1 .. n -> Items] : n \in 0 .. MaxItems}
    \cup {<<Range(0, 2), Single(5), Range(8, 9)>>}

\* absl::SimpleAtoi for an int: the digits in base ten; no number for the
\* empty string, for another character, or above the largest int
RECURSIVE AtoiDigits(_, _)
AtoiDigits(str, sum) ==
  IF str = << >> THEN [val |-> sum, ok |-> TRUE]
  ELSE IF \A d \in 1 .. 10 : DigitChars[d] # Head(str)
    THEN [val |-> 0, ok |-> FALSE]
  ELSE LET d == DigitValue(Head(str)) IN
    IF sum > kIntMax \div 10 \/ (sum = kIntMax \div 10 /\ d > kIntMax % 10)
      THEN [val |-> 0, ok |-> FALSE]
      ELSE AtoiDigits(Tail(str), sum * 10 + d)
SimpleAtoi(str) ==
  IF str = << >> THEN [val |-> 0, ok |-> FALSE] ELSE AtoiDigits(str, 0)

\* current.find(ch): the index of the first ch, counted from 0
Find(str, ch) ==
  IF \E i \in 1 .. Len(str) : str[i] = ch
    THEN (CHOOSE i \in 1 .. Len(str) :
            str[i] = ch /\ \A j \in 1 .. (i - 1) : str[j] # ch) - 1
    ELSE npos
\* current.substr(0, n)
Substr(str, n) == SubSeq(str, 1, IF n > Len(str) THEN Len(str) ELSE n)

\* what a read of at most count bytes gives when left bytes are to come:
\* some of them, and nothing only at the end of the file or for count 0
ReadSizes(count, left) ==
  LET m == IF count < left THEN count ELSE left
  IN IF m = 0 THEN {0} ELSE 1 .. m

\* a loop that leaves out the last CPU of a range
RangeCpusOpen(from, to) == from .. (to - 1)
\* for (int c = cpu_from; c <= cpu; c++) CPU_SET(c, &set)
RangeCpus(from, to) == from .. to
\* CPU_SET for each: the CPUs that cpu_set_t has a bit for
CpuSet(cpus) == {c \in cpus : c >= 0 /\ c < CPU_SETSIZE}

\* the start of a call: CPU_ZERO, carry_over = 0, cpu_from = -1
StartParse(list) ==
  [NoParse EXCEPT !.pc = "read", !.list = list, !.text = ListText(list)]

\* carry_over = current.size() - consumed; memmove(...)
AfterConsumed(consumed) ==
  [parse EXCEPT !.pc = "read", !.rc = 0,
                !.buf = SubSeq(parse.buf, consumed + 1, Len(parse.buf))]

\* rc = read(buf.data() + carry_over, buf.size() - carry_over)
Parse_read(rc) ==
  /\ parse.pc = "read"
  /\ rc \in ReadSizes(kBufSize - Len(parse.buf), Len(parse.text) - parse.pos)
  /\ parse' = [parse EXCEPT
                 !.pc = "scan", !.rc = rc, !.pos = @ + rc,
                 !.buf = @ \o SubSeq(parse.text, parse.pos + 1, parse.pos + rc)]
  /\ UNCHANGED <<nonNumaVars, machine, numa>>

\* a parser that takes the end of what one read delivered for the end of
\* the number
NumberEndsAtWindow == TRUE
AtEnd == parse.buf = << >> /\ parse.rc = 0
DashFirst ==
  /\ Find(parse.buf, "-") # npos
  /\ Find(parse.buf, "-") < Find(parse.buf, ",")
NumberEnds == Find(parse.buf, ",") # npos \/ parse.rc = 0

\* if (current.empty() && rc == 0) break;
Parse_break ==
  /\ parse.pc = "scan"
  /\ AtEnd
  /\ parse' = [parse EXCEPT !.pc = "done"]
  /\ UNCHANGED <<nonNumaVars, machine, numa>>

\* a dash before the next comma: the start of a range
Parse_dash ==
  /\ parse.pc = "scan"
  /\ ~AtEnd
  /\ DashFirst
  /\ LET dash == Find(parse.buf, "-")
         n == SimpleAtoi(Substr(parse.buf, dash))
     IN parse' = IF n.ok
                   THEN [AfterConsumed(dash + 1) EXCEPT !.cpu_from = n.val]
                   ELSE [parse EXCEPT !.pc = "crashed"]
  /\ UNCHANGED <<nonNumaVars, machine, numa>>

\* a comma, or the end of the file: a single CPU or the end of a range
Parse_number ==
  /\ parse.pc = "scan"
  /\ ~AtEnd
  /\ ~DashFirst
  /\ NumberEnds
  /\ LET comma == Find(parse.buf, ",")
         n == SimpleAtoi(Substr(parse.buf, comma))
         consumed == IF comma = npos THEN Len(parse.buf) ELSE comma + 1
         cpus == IF parse.cpu_from # -1
                   THEN RangeCpus(parse.cpu_from, n.val)
                   ELSE {n.val}
     IN parse' = IF n.ok
                   THEN [AfterConsumed(consumed) EXCEPT
                           !.cpu_from = -1, !.set = @ \cup CpuSet(cpus)]
                   ELSE [parse EXCEPT !.pc = "crashed"]
  /\ UNCHANGED <<nonNumaVars, machine, numa>>

\* neither yet: consumed = 0, read on
Parse_more ==
  /\ parse.pc = "scan"
  /\ ~AtEnd
  /\ ~DashFirst
  /\ ~NumberEnds
  /\ parse' = AfterConsumed(0)
  /\ UNCHANGED <<nonNumaVars, machine, numa>>

InitParse ==
  /\ SlabIdle
  /\ ManagerIdle
  /\ CmpxchgIdle
  /\ TraceIdle
  /\ machine = NoMachine
  /\ numa = NoNuma
  /\ \E list \in Lists : parse = StartParse(list)

NextParse ==
  \/ \E rc \in 0 .. kBufSize : Parse_read(rc)
  \/ Parse_break
  \/ Parse_dash
  \/ Parse_number
  \/ Parse_more

SpecParse == InitParse /\ [][NextParse]_vars

\* the texts a cpulist file can hold, well formed or not: every text of up
\* to MaxTextLen characters, the texts of the lists, and numbers longer than
\* the buffer
Texts ==
  UNION {[1 .. n -> {"1", "-", ","}] : n \in 0 .. MaxTextLen}
    \cup {ListText(list) : list \in Lists}
    \cup {[i \in 1 .. (kBufSize + 1) |-> "1"],
          [i \in 1 .. (kBufSize + 1) |-> IF i <= kBufSize THEN "0" ELSE "5"],
          [i \in 1 .. (kBufSize + 3) |-> IF i = kBufSize THEN "," ELSE "1"]}

\* the loop of ParseCpulist from the top of an iteration on, with a reader
\* that delivers with every read as many bytes as the buffer has room for
RECURSIVE BulkParse(_)
BulkParse(s) ==
  IF s.pc # "read" THEN s
  ELSE
    LET count == kBufSize - Len(s.buf)
        left == Len(s.text) - s.pos
        rc == IF count < left THEN count ELSE left
        current == s.buf \o SubSeq(s.text, s.pos + 1, s.pos + rc)
        dash == Find(current, "-")
        comma == Find(current, ",")
        t == [s EXCEPT !.rc = rc, !.pos = @ + rc]
        from == SimpleAtoi(Substr(current, dash))
        n == SimpleAtoi(Substr(current, comma))
        consumed == IF dash # npos /\ dash < comma THEN dash + 1
                    ELSE IF comma # npos THEN comma + 1
                    ELSE IF rc = 0 THEN Len(current)
                    ELSE 0
        rest == SubSeq(current, consumed + 1, Len(current))
        cpus == IF s.cpu_from # -1 THEN RangeCpus(s.cpu_from, n.val)
                ELSE {n.val}
    IN IF current = << >> /\ rc = 0 THEN [t EXCEPT !.pc = "done"]
       ELSE IF dash # npos /\ dash < comma
         THEN IF from.ok
                THEN BulkParse([t EXCEPT !.buf = rest, !.cpu_from = from.val])
                ELSE [t EXCEPT !.pc = "crashed"]
       ELSE IF comma # npos \/ rc = 0
         THEN IF n.ok
                THEN BulkParse([t EXCEPT !.buf = rest, !.cpu_from = -1,
                                         !.set = @ \cup CpuSet(cpus)])
                ELSE [t EXCEPT !.pc = "crashed"]
       ELSE BulkParse([t EXCEPT !.buf = rest])

InitParseText ==
  /\ SlabIdle
  /\ ManagerIdle
  /\ CmpxchgIdle
  /\ TraceIdle
  /\ machine = NoMachine
  /\ numa = NoNuma
  /\ \E text \in Texts : parse = [StartParse(<< >>) EXCEPT !.text = text]

SpecParseText == InitParseText /\ [][NextParse]_vars

(* ----------------------------- InitNumaTopology -------------------------- *)
BindModes == {"kNone", "kAdvisory", "kStrict"}
NumaEnvValues ==
  {"0", "1", "no-binding", "advisory-binding", "strict-binding", "2", ""}
NodeCounts == (0 .. MaxNodes) \cup {ManyNodes}

\* the cpulist of node n: node n has some of the CPUs 2n and 2n + 1, written
\* as a range, as two single CPUs, as one CPU, or it has no CPU
NodeList(layout, n) ==
  LET k == (n + layout) % 4 IN
  IF k = 0 THEN <<Range(2 * n, 2 * n + 1)>>
  ELSE IF k = 1 THEN <<Single(2 * n), Single(2 * n + 1)>>
  ELSE IF k = 2 THEN << >>
  ELSE <<Single(2 * n)>>

\* the partition of a node
NodeToPartition(node, num_partitions) == node % num_partitions
kNumaCpuFudge == 0

\* an int converted to uint64_t: the sign bit fills bits 32 to 63
SignExtended(bits) == IF 31 \in bits THEN bits \cup (32 .. 63) ELSE bits
\* 1 << node, an int shifted by a size_t: undefined from node 32 on, where
\* the shift instruction takes the amount modulo 32 and a shift done in a
\* 64-bit register leaves nothing in the low word
OneShiftedLeft(node) ==
  IF node < 32 THEN {SignExtended({node})}
  ELSE {SignExtended({node % 32}), {}}


\* a build that reports NUMA awareness whatever it found
NumaReturnAware(v) == [numa EXCEPT !.pc = "done", !.ret = TRUE]

NumaReturn(v) == [numa EXCEPT !.pc = "done", !.ret = v]

\* partition_to_nodes[NodeToPartition(0, num_partitions)] |= 1 << 0
Numa_node0 ==
  /\ numa.pc = "start"
  /\ \E bits \in OneShiftedLeft(0) :
       numa' = [numa EXCEPT
                  !.pc = "one_partition",
                  !.partition_to_nodes[NodeToPartition(0, numa.num_partitions)]
                     = @ \cup bits]
  /\ UNCHANGED <<nonNumaVars, machine, parse>>


\* a build without the shortcut for a single partition
Numa_one_partition_skipped ==
  /\ numa.pc = "one_partition"
  /\ numa' = [numa EXCEPT !.pc = "is_fast"]
  /\ UNCHANGED <<nonNumaVars, machine, parse>>

\* if (num_partitions == 1) return false;
Numa_one_partition ==
  /\ numa.pc = "one_partition"
  /\ numa' = IF numa.num_partitions = 1 THEN NumaReturn(FALSE)
             ELSE [numa EXCEPT !.pc = "is_fast"]
  /\ UNCHANGED <<nonNumaVars, machine, parse>>


\* a build that reads the environment without asking for rseq first
Numa_IsFast_skipped ==
  /\ numa.pc = "is_fast"
  /\ numa' = [numa EXCEPT !.pc = "getenv"]
  /\ UNCHANGED <<nonNumaVars, machine, parse>>

\* if (!subtle::percpu::IsFast()) return false;
Numa_IsFast ==
  /\ numa.pc = "is_fast"
  /\ numa' = IF ~machine.fast THEN NumaReturn(FALSE)
             ELSE [numa EXCEPT !.pc = "getenv"]
  /\ UNCHANGED <<nonNumaVars, machine, parse>>


\* a build that takes "no-binding" for strict binding
Numa_getenv_no_binding_strict ==
  /\ numa.pc = "getenv"
  /\ LET e == machine.env
         on == [numa EXCEPT !.pc = "open", !.node = 0, !.numa_aware = FALSE]
     IN numa' =
          IF ~e.set
            THEN IF ~machine.want
                   THEN [numa EXCEPT !.pc = "done", !.ret = FALSE]
                   ELSE on
          ELSE IF e.val = "no-binding" \/ e.val = "strict-binding"
            THEN [on EXCEPT !.bind_mode = "kStrict"]
          ELSE IF e.val = "advisory-binding" \/ e.val = "1"
            THEN [on EXCEPT !.bind_mode = "kAdvisory"]
          ELSE IF e.val = "0"
            THEN [numa EXCEPT !.pc = "done", !.ret = FALSE]
          ELSE [numa EXCEPT !.pc = "crashed"]
  /\ UNCHANGED <<nonNumaVars, machine, parse>>

\* TCMALLOC_NUMA_AWARE, compared with strcmp; then num_cpus and
\* numa_aware = false
Numa_getenv ==
  /\ numa.pc = "getenv"
  /\ LET e == machine.env
         on == [numa EXCEPT !.pc = "open", !.node = 0, !.numa_aware = FALSE]
     IN numa' =
          IF ~e.set
            THEN IF ~machine.want THEN NumaReturn(FALSE) ELSE on
          ELSE IF e.val = "no-binding"
            THEN [on EXCEPT !.bind_mode = "kNone"]
          ELSE IF e.val = "advisory-binding" \/ e.val = "1"
            THEN [on EXCEPT !.bind_mode = "kAdvisory"]
          ELSE IF e.val = "strict-binding"
            THEN [on EXCEPT !.bind_mode = "kStrict"]
          ELSE IF e.val = "0"
            THEN NumaReturn(FALSE)
          ELSE [numa EXCEPT !.pc = "crashed"]
  /\ UNCHANGED <<nonNumaVars, machine, parse>>

\* fd = open_node_cpulist(node); ENOENT behind the last node ends the loop
Numa_open ==
  /\ numa.pc = "open"
  /\ numa' = IF numa.node >= machine.nodes
               THEN [numa EXCEPT !.pc = "return"]
               ELSE [numa EXCEPT !.pc = "record", !.opened = @ \cup {numa.node}]
  /\ UNCHANGED <<nonNumaVars, machine, parse>>

\* partition = NodeToPartition(node, num_partitions);
\* partition_to_nodes[partition] |= 1 << node
Numa_record ==
  /\ numa.pc = "record"
  /\ LET partition == NodeToPartition(numa.node, numa.num_partitions) IN
       \E bits \in OneShiftedLeft(numa.node) :
         numa' = [numa EXCEPT !.pc = "partition", !.partition = partition,
                              !.partition_to_nodes[partition] = @ \cup bits]
  /\ UNCHANGED <<nonNumaVars, machine, parse>>

\* if (partition == 0) { signal_safe_close(fd); continue; }
Numa_partition0 ==
  /\ numa.pc = "partition"
  /\ numa.partition = 0
  /\ numa' = [numa EXCEPT !.pc = "open", !.node = @ + 1]
  /\ UNCHANGED <<nonNumaVars, machine, parse>>

\* node_cpus = ParseCpulist(...) over the cpulist of the node
Numa_ParseCpulist ==
  /\ numa.pc = "partition"
  /\ numa.partition # 0
  /\ numa' = [numa EXCEPT !.pc = "parse"]
  /\ parse' = StartParse(NodeList(machine.layout, numa.node))
  /\ UNCHANGED <<nonNumaVars, machine>>

\* the loop over the CPUs of node_cpus, numa_aware, close and node++
Numa_assign ==
  /\ numa.pc = "parse"
  /\ parse.pc \in {"done", "crashed"}
  /\ numa' =
       IF parse.pc = "crashed" THEN [numa EXCEPT !.pc = "crashed"]
       ELSE [numa EXCEPT
               !.pc = "open", !.node = @ + 1,
               !.numa_aware = @ \/ parse.set # {},
               !.cpu_to_scaled_partition =
                  [c \in CpuIds |->
                     IF \E k \in parse.set : c = k + kNumaCpuFudge
                       THEN numa.partition * numa.scale_by
                       ELSE @[c]]]
  /\ parse' = NoParse
  /\ UNCHANGED <<nonNumaVars, machine>>


\* a build that always reports that it is NUMA aware
Numa_return_always_aware ==
  /\ numa.pc = "return"
  /\ numa' = [numa EXCEPT !.pc = "done", !.ret = TRUE]
  /\ UNCHANGED <<nonNumaVars, machine, parse>>

\* return numa_aware;
Numa_return ==
  /\ numa.pc = "return"
  /\ numa' = NumaReturn(numa.numa_aware)
  /\ UNCHANGED <<nonNumaVars, machine, parse>>

InitNuma ==
  /\ SlabIdle
  /\ ManagerIdle
  /\ CmpxchgIdle
  /\ TraceIdle
  /\ parse = NoParse
  /\ \E nodes \in NodeCounts, layout \in 0 .. 1, set \in BOOLEAN,
        val \in NumaEnvValues, fast \in BOOLEAN, want \in BOOLEAN :
       /\ ~set => val = ""
       /\ machine = [env |-> [set |-> set, val |-> val], nodes |-> nodes,
                     layout |-> layout,
                     fast |-> fast, want |-> want]
  /\ \E num_partitions \in 1 .. MaxPartitions, scale_by \in 1 .. MaxScale,
        bind_mode \in BindModes :
       numa = [NoNuma EXCEPT !.pc = "start",
                             !.num_partitions = num_partitions,
                             !.scale_by = scale_by, !.bind_mode = bind_mode]

NextNuma ==
  \/ Numa_node0
  \/ Numa_one_partition
  \/ Numa_IsFast
  \/ Numa_getenv
  \/ Numa_open
  \/ Numa_record
  \/ Numa_partition0
  \/ Numa_ParseCpulist
  \/ \E rc \in 0 .. kBufSize : Parse_read(rc)
  \/ Parse_break
  \/ Parse_dash
  \/ Parse_number
  \/ Parse_more
  \/ Numa_assign
  \/ Numa_return

SpecNuma == InitNuma /\ [][NextNuma]_vars

(* ------------------ TcmallocSlab_Internal_PerCpuCmpxchg64 ----------------- *)
\* The section is [start, commit): FETCH_CPU, cmp, bne, ldr, cmp, bne, str.
\* "start" stands before FETCH_CPU, "ldr" before the load, "str" before the
\* store; the commit and mismatch labels lie outside it.
\* p points to a long of target_cpu's data: word[target_cpu].

\* a kernel that resumes a thread where it stood
CmpxchgNotAborted(u) == cmpxchg[u]

\* thread u after the kernel switched it out: inside the section it resumes
\* at the section's entry, which fetches the CPU again
CmpxchgAborted(u) ==
  IF cmpxchg[u].pc \in {"start", "ldr", "str"}
    THEN [cmpxchg[u] EXCEPT !.pc = "start", !.x4 = 0, !.x6 = 0]
    ELSE cmpxchg[u]

\* thread t executes an instruction on its CPU: every other thread of that
\* CPU was switched out before
CmpxchgRuns(t, new) ==
  cmpxchg' = [u \in Threads |->
                IF u = t THEN new
                ELSE IF cmpxchg[u].cpu_id = cmpxchg[t].cpu_id
                  THEN CmpxchgAborted(u)
                  ELSE cmpxchg[u]]

CallPerCpuCmpxchg64(t, target_cpu, old_val, new_val) ==
  /\ cmpxchg[t].pc = "idle"
  /\ cmpxchg' = [cmpxchg EXCEPT ![t] =
                   [@ EXCEPT !.pc = "start", !.target_cpu = target_cpu,
                             !.old_val = old_val, !.new_val = new_val]]
  /\ UNCHANGED <<nonCmpxchgVars, word>>

\* FETCH_CPU(w4); cmp w0, w4; bne commit.  commit: mov x0, x4; ret
Cmpxchg_FETCH_CPU(t) ==
  /\ cmpxchg[t].pc = "start"
  /\ LET e == cmpxchg[t] IN
       CmpxchgRuns(t,
         IF e.target_cpu /= e.cpu_id
           THEN [e EXCEPT !.pc = "done", !.x4 = e.cpu_id, !.ret = e.cpu_id]
           ELSE [e EXCEPT !.pc = "ldr", !.x4 = e.cpu_id])
  /\ UNCHANGED <<nonCmpxchgVars, word>>

\* ldr x6, [x1]; cmp x6, x2; bne mismatch.  mismatch: mov x0, #-1; ret
Cmpxchg_ldr(t) ==
  /\ cmpxchg[t].pc = "ldr"
  /\ LET e == cmpxchg[t]
         v == word[e.target_cpu]
     IN CmpxchgRuns(t,
          IF v = e.old_val
            THEN [e EXCEPT !.pc = "str", !.x6 = v]
            ELSE [e EXCEPT !.pc = "done", !.x6 = v, !.ret = -1])
  /\ UNCHANGED <<nonCmpxchgVars, word>>

\* str x3, [x1]; commit: mov x0, x4; ret
Cmpxchg_str(t) ==
  /\ cmpxchg[t].pc = "str"
  /\ word' = [word EXCEPT ![cmpxchg[t].target_cpu] = cmpxchg[t].new_val]
  /\ CmpxchgRuns(t, [cmpxchg[t] EXCEPT !.pc = "done", !.ret = cmpxchg[t].x4])
  /\ UNCHANGED nonCmpxchgVars

\* the caller takes the result
Cmpxchg_return(t) ==
  /\ cmpxchg[t].pc = "done"
  /\ cmpxchg' = [cmpxchg EXCEPT ![t] =
                   [NoCmpxchg EXCEPT !.cpu_id = cmpxchg[t].cpu_id]]
  /\ UNCHANGED <<nonCmpxchgVars, word>>

\* a signal, or a thread of another process taking the CPU
Cmpxchg_Preempt(t) ==
  /\ cmpxchg[t].pc \in {"ldr", "str"}
  /\ cmpxchg' = [cmpxchg EXCEPT ![t] = CmpxchgAborted(t)]
  /\ UNCHANGED <<nonCmpxchgVars, word>>

\* the thread continues on CPU c
Cmpxchg_Migrate(t, c) ==
  /\ c /= cmpxchg[t].cpu_id
  /\ cmpxchg' = [cmpxchg EXCEPT ![t] = [CmpxchgAborted(t) EXCEPT !.cpu_id = c]]
  /\ UNCHANGED <<nonCmpxchgVars, word>>

InitCmpxchg ==
  /\ SlabIdle
  /\ ManagerIdle
  /\ NumaIdle
  /\ TraceIdle
  /\ word \in [Cpus -> 0 .. MaxVal]
  /\ cmpxchg \in [Threads -> {[NoCmpxchg EXCEPT !.cpu_id = c] : c \in Cpus}]

NextCmpxchg ==
  \/ \E t \in Threads, target_cpu \in Cpus :
       \E old_val, new_val \in 0 .. MaxVal :
         CallPerCpuCmpxchg64(t, target_cpu, old_val, new_val)
  \/ \E t \in Threads : Cmpxchg_FETCH_CPU(t)
  \/ \E t \in Threads : Cmpxchg_ldr(t)
  \/ \E t \in Threads : Cmpxchg_str(t)
  \/ \E t \in Threads : Cmpxchg_return(t)
  \/ \E t \in Threads : Cmpxchg_Preempt(t)
  \/ \E t \in Threads, c \in Cpus : Cmpxchg_Migrate(t, c)

SpecCmpxchg == InitCmpxchg /\ [][NextCmpxchg]_vars

(* ================================ claims ================================= *)
\* the slots of the live region [begin, current) of class cl on CPU c
LiveIdx(c, cl) == Header(c, cl).begin .. (Header(c, cl).current - 1)
InLive(c, i) == \E cl \in Classes : i \in LiveIdx(c, cl)

\* how often pointer p occurs in the live regions and with the callers
Occurrences(p) ==
  Cardinality({ci \in Cpus \X Words : InLive(ci[1], ci[2]) /\ slots[ci[1]][ci[2]] = p})
    + Cardinality({t \in Threads : p \in held[t]})

\* the labels of the sections, written out (the kernel's view is InCS)
SectionPc(l) ==
  l \notin {"idle", "done", "push_no_capacity", "pop_no_items",
            "pushb_no_capacity", "popb_no_items"}
CommitPc(l) == l \in {"push_st_cur", "pop_st_cur", "pushb_st_cur", "popb_st_cur"}

\* thread t commits in this step
Commits(t) == CommitPc(pc[t]) /\ pc'[t] = "done"

\* thread t executes an instruction of its section in this step
Stepped(t) ==
  /\ SectionPc(pc[t])
  /\ \/ pc'[t] \notin {pc[t], StartOf(op[t].kind)}
     \/ pc'[t] = pc[t] /\ reg'[t] /= reg[t]

\* C1: with several threads on the same CPU's slab being preempted and
\* migrated, every pointer is at every moment exactly once in a live region
\* [begin, current) or with a caller, a live slot holds a pointer, and a push
\* stores only inside [current, end) of the CPU the thread runs on.
C1_NoPointerDuplicatedOrLost ==
  /\ \A p \in Ptrs : Occurrences(p) = 1
  /\ \A c \in Cpus, i \in Words : InLive(c, i) => slots[c][i] \in Ptrs
  /\ \A t \in Threads :
       LET h == Header(cpu[t], op[t].cl) IN
         /\ pc[t] \in {"push_st_slot", "pushb_loop"} =>
              /\ reg[t].cpu = cpu[t]
              /\ h.current <= reg[t].cur /\ reg[t].cur < h.end
         /\ pc[t] = "push_st_cur" =>
              /\ reg[t].cpu = cpu[t]
              /\ h.current < h.end
              /\ reg[t].cur = h.current + 1
              /\ slots[cpu[t]][h.current] = op[t].p

\* C1 witness: in a workload of several threads one thread has popped a
\* pointer another thread pushed, while another thread of the same CPU
\* stands inside a section.
C1_Witness ==
  /\ scope.thr = Threads
  /\ \E t, u \in Threads :
       /\ t /= u
       /\ cpu[t] = cpu[u]
       /\ pc[t] = "done" /\ ret[t].kind \in {"ptr", "count"}
       /\ held[t] = Ptrs
       /\ SectionPc(pc[u])

\* C2: a step that is no commit changes no header and no live region, and a
\* thread that is switched out inside a section (it migrates, or another
\* thread executes on its CPU) resumes at the section's entry with every
\* register to be loaded again.
C2_Step ==
  /\ (\A t \in Threads : ~Commits(t)) =>
       /\ hdr' = hdr
       /\ \A c \in Cpus, i \in Words : InLive(c, i) => slots'[c][i] = slots[c][i]
  /\ \A t \in Threads :
       (/\ SectionPc(pc[t])
        /\ \/ cpu'[t] /= cpu[t]
           \/ \E u \in Threads : u /= t /\ cpu[u] = cpu[t] /\ Stepped(u))
         => pc'[t] = StartOf(op[t].kind) /\ reg'[t] = NoReg

C3_HeaderInvariant ==
  \A c \in Cpus, cl \in Classes :
    /\ Header(c, cl).begin <= Header(c, cl).current
    /\ Header(c, cl).current <= Header(c, cl).end
    /\ Header(c, cl).begin = Begin(cl)
    /\ Header(c, cl).end = End(cl)

\* C3 witness: a full class, with a Push on it that found no capacity.
C3_Witness ==
  \E t \in Threads :
    /\ pc[t] = "push_no_capacity"
    /\ Header(cpu[t], op[t].cl).current = Header(cpu[t], op[t].cl).end

\* C4: a Push that commits with current < end has stored p at slot current,
\* adds exactly 1 to current, calls no handler and returns the CPU whose slab
\* it changed, the one the thread runs on.
C4_Step ==
  \A t \in Threads :
    LET c == cpu[t]
        cl == op[t].cl
        h == Header(c, cl)
    IN /\ (pc[t] = "push_st_slot" /\ Stepped(t)) =>
            /\ h.current < h.end
            /\ slots' = [slots EXCEPT ![c][h.current] = op[t].p]
            /\ hdr' = hdr
       /\ (pc[t] = "push_st_cur" /\ Commits(t)) =>
            /\ h.current < h.end
            /\ slots'[c][h.current] = op[t].p
            /\ hdr' = [hdr EXCEPT ![c][cl].current = h.current + 1]
            /\ handler'[t].n = 0
            /\ ret'[t] = [val |-> c, kind |-> "cpu"]

C4_PushCommit == [][C4_Step]_vars

\* C4 witness: a Push has returned the CPU on whose slab its pointer is now
\* the top of the live region.
C4_Witness ==
  \E t \in Threads :
    /\ pc[t] = "done" /\ op[t].kind = "Push" /\ ret[t].kind = "cpu"
    /\ LET h == Header(ret[t].val, op[t].cl) IN
         /\ h.begin < h.current
         /\ slots[ret[t].val][h.current - 1] = op[t].p

\* C5: a Pop that commits with begin < current takes exactly 1 from current
\* and returns the pointer at the new current, calling no handler.
C5_Step ==
  \A t \in Threads :
    LET c == cpu[t]
        cl == op[t].cl
        h == Header(c, cl)
    IN (pc[t] = "pop_st_cur" /\ Commits(t)) =>
         /\ h.begin < h.current
         /\ hdr' = [hdr EXCEPT ![c][cl].current = h.current - 1]
         /\ ret'[t] = [val |-> slots[c][h.current - 1], kind |-> "ptr"]
         /\ ret'[t].val \in Ptrs
         /\ handler'[t].n = 0
         /\ slots' = slots

C6_Step ==
  \A t \in Threads :
    LET c == cpu[t]
        h == Header(c, op[t].cl)
    IN /\ (pc[t] = "push_ld_end" /\ Stepped(t) /\ h.current = h.end) =>
            /\ pc'[t] = "push_no_capacity"
            /\ reg'[t].cpu = c
       /\ (pc[t] \in {"push_start", "push_ld_cur", "push_ld_end"} /\ Stepped(t)) =>
            /\ slots' = slots
            /\ hdr' = hdr
       /\ (pc[t] = "push_st_slot" /\ Stepped(t)) =>
            \A i \in Words : i >= h.end => slots'[c][i] = slots[c][i]
       /\ SectionPc(pc[t]) /\ op[t].kind = "Push" => handler[t].n = 0
       /\ pc[t] = "push_no_capacity" =>
            /\ handler[t].n = 0
            /\ pc'[t] /= pc[t] =>
                 /\ pc'[t] = "done"
                 /\ handler'[t] = [arg |-> reg[t].cpu, n |-> 1]
                 /\ slots' = slots
                 /\ hdr' = hdr
       /\ (pc[t] = "done" /\ ret[t].kind = "overflow") =>
            /\ handler[t].n = 1
            /\ pc'[t] = "done" => handler'[t] = handler[t]

C6_PushOverflow == [][C6_Step]_vars

\* C6 witness: the overflow handler was called once, for a CPU whose class
\* is full.
C6_Witness ==
  \E t \in Threads :
    /\ pc[t] = "done" /\ ret[t].kind = "overflow"
    /\ handler[t] = [arg |-> cpu[t], n |-> 1]
    /\ Header(cpu[t], op[t].cl).current = Header(cpu[t], op[t].cl).end

\* C7: a Pop that finds current = begin on the CPU it runs on goes to the
\* underflow handler and calls it with that CPU's id; the pass of the section
\* that found it has loaded no slot and stored nothing.
C7_Step ==
  \A t \in Threads :
    LET c == cpu[t]
        h == Header(c, op[t].cl)
    IN /\ (pc[t] = "pop_ld_begin" /\ Stepped(t) /\ h.current = h.begin) =>
            /\ pc'[t] = "pop_no_items"
            /\ reg'[t].cpu = c
            /\ reg'[t].val = Null
       /\ (pc[t] \in {"pop_start", "pop_ld_cur", "pop_ld_begin"} /\ Stepped(t)) =>
            /\ slots' = slots
            /\ hdr' = hdr
            /\ reg'[t].val = Null
       /\ (pc[t] = "pop_ld_slot" /\ Stepped(t)) =>
            /\ h.begin <= reg[t].cur
            /\ reg'[t].val = slots[c][reg[t].cur]
       /\ pc[t] = "pop_no_items" =>
            /\ handler[t].n = 0
            /\ reg[t].val = Null
            /\ pc'[t] /= pc[t] =>
                 /\ pc'[t] = "done"
                 /\ handler'[t] = [arg |-> reg[t].cpu, n |-> 1]
                 /\ slots' = slots
                 /\ hdr' = hdr

C7_PopUnderflow == [][C7_Step]_vars

\* C7 witness: the underflow handler was called for a CPU whose class is
\* empty while the same class holds an object on another CPU.
C7_Witness ==
  \E t \in Threads :
    /\ pc[t] = "done" /\ ret[t].kind = "underflow"
    /\ handler[t] = [arg |-> cpu[t], n |-> 1]
    /\ Header(cpu[t], op[t].cl).current = Header(cpu[t], op[t].cl).begin
    /\ \E c \in Cpus : Header(c, op[t].cl).begin < Header(c, op[t].cl).current

\* C8: one thread running Push and Pop on one (CPU, class), starting from the
\* empty slab: current = begin + accepted pushes - accepted pops, the live
\* region is the stack of the accepted pushes not yet popped, and an accepted
\* Pop returns the most recent of them.
C8_SequentialLifo ==
  LET t == FirstThread
      c == cpu[t]
      h == Header(c, SeqClass)
  IN /\ h.begin = Begin(SeqClass)
     /\ h.current = h.begin + acc.push - acc.pop
     /\ Len(acc.stack) = acc.push - acc.pop
     /\ \A i \in 1 .. Len(acc.stack) : slots[c][h.begin + i - 1] = acc.stack[i]
     /\ (pc[t] = "done" /\ ret[t].kind = "ptr") =>
          /\ ret[t].val = acc.top
          /\ acc.top \in SeqPtrs

\* C8 witness: after all the pushes counted, a Pop has returned the top of a
\* stack that held another pointer below it.
C8_Witness ==
  /\ acc.push = MaxOps
  /\ acc.pop >= 1
  /\ Len(acc.stack) >= 1
  /\ pc[FirstThread] = "done" /\ ret[FirstThread].kind = "ptr"
  /\ acc.top /= acc.stack[Len(acc.stack)]

\* C9: a PushBatch of n >= 1 pointers returns min(n, end - current), 0 when
\* current = end, adds what it returns to current and leaves begin and end.
C9_Step ==
  \A t \in Threads :
    LET c == cpu[t]
        cl == op[t].cl
        h == Header(c, cl)
        n == Min(op[t].len, h.end - h.current)
    IN /\ (pc[t] = "pushb_ld_end" /\ Stepped(t)) =>
            pc'[t] = IF h.current = h.end THEN "pushb_no_capacity" ELSE "pushb_loop"
       /\ (pc[t] = "pushb_st_cur" /\ Commits(t)) =>
            /\ op[t].len >= 1
            /\ n >= 1
            /\ ret'[t] = [val |-> n, kind |-> "count"]
            /\ hdr' = [hdr EXCEPT ![c][cl].current = h.current + n]
       /\ (pc[t] = "pushb_no_capacity" /\ pc'[t] /= pc[t]) =>
            /\ ret'[t] = [val |-> 0, kind |-> "count"]
            /\ hdr' = hdr
            /\ slots' = slots
            /\ held' = held

C9_PushBatchCount == [][C9_Step]_vars

\* C9 witness: a PushBatch of more than one pointer has pushed them all.
C9_Witness ==
  \E t \in Threads :
    /\ pc[t] = "done" /\ op[t].kind = "PushBatch"
    /\ op[t].len > 1
    /\ ret[t] = [val |-> op[t].len, kind |-> "count"]
    /\ Header(cpu[t], op[t].cl).current = Header(cpu[t], op[t].cl).end

\* the slots a PushBatch of thread t commits in this step, lowest first
PushBatchStored(t, count) ==
  [i \in 0 .. (count - 1) |->
     slots'[cpu[t]][Header(cpu[t], op[t].cl).current + i]]

\* C10 as claimed: a PushBatch that pushes count < n pointers stores the first
\* count entries of the array and leaves the tail to the caller.
C10_Original_Step ==
  \A t \in Threads :
    (pc[t] = "pushb_st_cur" /\ Commits(t) /\ ret'[t].val < op[t].len) =>
      LET count == ret'[t].val IN
        /\ {PushBatchStored(t, count)[i] : i \in 0 .. (count - 1)}
             = {BatchWord(t, j) : j \in 0 .. (count - 1)}
        /\ \A j \in count .. (op[t].len - 1) : BatchWord(t, j) \in held'[t]

C10_Original == [][C10_Original_Step]_vars

\* C10 amended: a PushBatch that pushes count < n pointers stores the last
\* count entries of the array, the last entry at the old current and the
\* others above it in reverse input order, and leaves the head
\* pointers[0 .. n-count-1] to the caller.
C10_Step ==
  \A t \in Threads :
    (pc[t] = "pushb_st_cur" /\ Commits(t) /\ ret'[t].val < op[t].len) =>
      LET count == ret'[t].val
          n == op[t].len
      IN /\ \A i \in 0 .. (count - 1) :
              PushBatchStored(t, count)[i] = BatchWord(t, n - 1 - i)
         /\ \A j \in 0 .. (n - count - 1) : BatchWord(t, j) \in held'[t]
         /\ \A j \in (n - count) .. (n - 1) :
              BatchWord(t, j) \in held[t] /\ BatchWord(t, j) \notin held'[t]

C10_PushBatchTakesTail == [][C10_Step]_vars

\* C10 witness: a PushBatch has pushed fewer pointers than it was given.
C10_Witness ==
  \E t \in Threads :
    /\ pc[t] = "done" /\ op[t].kind = "PushBatch"
    /\ ret[t].kind = "count"
    /\ 1 <= ret[t].val /\ ret[t].val < op[t].len
    /\ batch[t][1] \in held[t]

\* C11: a PopBatch of n >= 1 pointers returns min(n, current - begin), 0 when
\* the class is empty, takes what it returns from current, and out[i] is the
\* pointer that stood at slot current - 1 - i.
C11_Step ==
  \A t \in Threads :
    LET c == cpu[t]
        cl == op[t].cl
        h == Header(c, cl)
        n == Min(op[t].len, h.current - h.begin)
    IN /\ (pc[t] = "popb_ld_begin" /\ Stepped(t)) =>
            pc'[t] = IF h.current = h.begin THEN "popb_no_items" ELSE "popb_loop"
       /\ (pc[t] = "popb_st_cur" /\ Commits(t)) =>
            /\ op[t].len >= 1
            /\ n >= 1
            /\ ret'[t] = [val |-> n, kind |-> "count"]
            /\ hdr' = [hdr EXCEPT ![c][cl].current = h.current - n]
            /\ slots' = slots
            /\ \A i \in 0 .. (n - 1) :
                 /\ batch'[t][i + 1] = slots[c][h.current - 1 - i]
                 /\ batch'[t][i + 1] \in Ptrs
                 /\ batch'[t][i + 1] \in held'[t]
       /\ (pc[t] = "popb_no_items" /\ pc'[t] /= pc[t]) =>
            /\ ret'[t] = [val |-> 0, kind |-> "count"]
            /\ hdr' = hdr
            /\ slots' = slots
            /\ held' = held

C11_PopBatchCount == [][C11_Step]_vars

\* C11 witness: a PopBatch has returned two pointers and emptied the class.
C11_Witness ==
  \E t \in Threads :
    /\ pc[t] = "done" /\ op[t].kind = "PopBatch"
    /\ ret[t] = [val |-> 2, kind |-> "count"]
    /\ batch[t][1] /= batch[t][2]
    /\ {batch[t][1], batch[t][2]} \subseteq held[t]
    /\ Header(cpu[t], op[t].cl).current = Header(cpu[t], op[t].cl).begin

\* the PushBatch of a round trip has pushed all k pointers
RoundTripPushed ==
  LET t == FirstThread
      k == Len(acc.pushed)
  IN (acc.phase = "push" /\ pc[t] = "done") =>
       /\ ret[t] = [val |-> k, kind |-> "count"]
       /\ Header(cpu[t], SeqClass) = [acc.before EXCEPT !.current = @ + k]

\* the PopBatch of a round trip has returned the k pointers pushed and the
\* header is the one before the push
RoundTripRestored ==
  LET t == FirstThread
      k == Len(acc.pushed)
  IN (acc.phase = "pop" /\ pc[t] = "done") =>
       /\ ret[t] = [val |-> k, kind |-> "count"]
       /\ Len(batch[t]) = k
       /\ {batch[t][i] : i \in 1 .. k} = {acc.pushed[i] : i \in 1 .. k}
       /\ \A i \in 1 .. k : acc.pushed[i] \in held[t]
       /\ Header(cpu[t], SeqClass) = acc.before

\* C12 as claimed: with no interference a PushBatch of k <= end - current
\* pointers followed at once by a PopBatch of k returns the same k pointers
\* in the reverse of their input order, out[i] = pointers[k-1-i], with begin,
\* current and end as they were before the push.
C12_Original ==
  /\ RoundTripPushed
  /\ RoundTripRestored
  /\ (acc.phase = "pop" /\ pc[FirstThread] = "done") =>
       \A i \in 0 .. (Len(acc.pushed) - 1) :
         batch[FirstThread][i + 1] = acc.pushed[Len(acc.pushed) - i]

\* C12 amended: with no interference a PushBatch of k <= end - current
\* pointers followed at once by a PopBatch of k returns the same k pointers
\* in their input order, out[i] = pointers[i] (each of the two reverses),
\* with begin, current and end as they were before the push.
C12_RoundTripSameOrder ==
  /\ RoundTripPushed
  /\ RoundTripRestored
  /\ (acc.phase = "pop" /\ pc[FirstThread] = "done") =>
       \A i \in 0 .. (Len(acc.pushed) - 1) :
         batch[FirstThread][i + 1] = acc.pushed[i + 1]

\* C12 witness: a round trip of two different pointers has finished.
C12_Witness ==
  /\ acc.phase = "pop"
  /\ pc[FirstThread] = "done"
  /\ Len(acc.pushed) = 2
  /\ acc.pushed[1] /= acc.pushed[2]
  /\ ret[FirstThread].val = 2

\* the live region of class cl on CPU c as a stack, bottom first, before and
\* after the step
LiveSeq(c, cl) ==
  [i \in 1 .. (hdr[c][cl].current - hdr[c][cl].begin) |->
     slots[c][hdr[c][cl].begin + i - 1]]
LiveSeqNext(c, cl) ==
  [i \in 1 .. (hdr'[c][cl].current - hdr'[c][cl].begin) |->
     slots'[c][hdr'[c][cl].begin + i - 1]]

\* the step is the atomic stack operation of thread t's call on stack s,
\* giving stack s2 and the result in ret'
AtomicStackOp(t, s, s2) ==
  LET n == ret'[t].val
      k == op[t].len
  IN CASE op[t].kind = "Push" ->
            /\ s2 = Append(s, op[t].p)
            /\ ret'[t].kind = "cpu"
       [] op[t].kind = "Pop" ->
            /\ ret'[t].kind = "ptr"
            /\ s = Append(s2, ret'[t].val)
       [] op[t].kind = "PushBatch" ->
            /\ ret'[t].kind = "count"
            /\ s2 = s \o [i \in 1 .. n |-> batch[t][k + 1 - i]]
       [] op[t].kind = "PopBatch" ->
            /\ ret'[t].kind = "count"
            /\ s = s2 \o [i \in 1 .. n |-> batch'[t][n + 1 - i]]

\* C13: a header changes only in the commit of one call, by one store to
\* current of the class of the CPU the thread runs on; that store is the last
\* write of the call (no slot and no word of the caller's array is written
\* with or after it); a call that has committed or left by an exit is never
\* restarted, so it commits at most once; and every commit is one atomic
\* stack operation on the live region, every other step leaving all live
\* regions as they are.
C13_Step ==
  /\ hdr' /= hdr =>
       \E t \in Threads :
         /\ Commits(t)
         /\ \A u \in Threads \ {t} : ~Commits(u)
         /\ \E v \in 0 .. 65535 :
              hdr' = [hdr EXCEPT ![cpu[t]][op[t].cl].current = v]
  /\ \A t \in Threads :
       /\ Commits(t) =>
            /\ hdr'[cpu[t]][op[t].cl] /= hdr[cpu[t]][op[t].cl]
            /\ slots' = slots
            /\ batch' = batch
            /\ AtomicStackOp(t, LiveSeq(cpu[t], op[t].cl),
                             LiveSeqNext(cpu[t], op[t].cl))
            /\ \A c \in Cpus, cl \in Classes :
                 <<c, cl>> /= <<cpu[t], op[t].cl>> =>
                   LiveSeqNext(c, cl) = LiveSeq(c, cl)
       /\ pc[t] = "done" =>
            /\ pc'[t] \in {"done", "idle"}
            /\ pc'[t] = "done" => ret'[t] = ret[t] /\ batch'[t] = batch[t]
       /\ pc[t] \in {"push_no_capacity", "pop_no_items",
                     "pushb_no_capacity", "popb_no_items"} =>
            pc'[t] \in {pc[t], "done"}
  /\ (\A t \in Threads : ~Commits(t)) =>
       \A c \in Cpus, cl \in Classes : LiveSeqNext(c, cl) = LiveSeq(c, cl)

C14_Step ==
  /\ \A c \in Cpus, cl \in Classes :
       /\ hdr'[c][cl] /= hdr[c][cl] =>
            \E t \in Threads :
              Commits(t) /\ cpu[t] = c /\ op[t].cl = cl /\ reg[t].cpu = c
       /\ \A i \in hdr[c][cl].begin .. (hdr[c][cl].end - 1) :
            slots'[c][i] /= slots[c][i] =>
              \E t \in Threads :
                /\ Stepped(t)
                /\ cpu[t] = c /\ op[t].cl = cl /\ reg[t].cpu = c
                /\ op[t].kind \in {"Push", "PushBatch"}
  /\ \A c \in Cpus, i \in Words :
       (\A cl \in Classes : i \notin hdr[c][cl].begin .. (hdr[c][cl].end - 1))
         => slots'[c][i] = slots[c][i]
  /\ \A t \in Threads : Commits(t) => cpu'[t] = cpu[t] /\ reg[t].cpu = cpu[t]

C15_EvictReturnsRealClass ==
  /\ next_to_evict_ \in 1 .. kNumClasses
  /\ \A th \in Threads :
       /\ evict[th].pc \in {"store1", "ask", "load2", "store2", "done"} =>
            evict[th].t \in 1 .. (kNumClasses - 1)
       /\ evict[th].pc = "done" =>
            /\ evict[th].ret \in 1 .. (kNumClasses - 1)
            /\ evict[th].ret /= 0

\* C15 witness: two threads have taken the same candidate from the cursor at
\* its highest value, one store was lost, and one of them got class 1 in its
\* second probe after the wrap.
C15_Witness ==
  \E th, u \in Threads :
    /\ th /= u
    /\ evict[th].pc = "done" /\ evict[u].pc = "done"
    /\ evict[u].ret = kNumClasses - 1
    /\ evict[u].probes = 1
    /\ evict[th].asked = <<kNumClasses - 1>>
    /\ evict[th].ret = 1
    /\ evict[th].probes = 2

\* C16: a call makes at most two probes; a probe takes the cursor's value,
\* a value >= kNumClasses as 1, and stores the candidate + 1 to the cursor
\* (the cursor advanced by one when no other thread came between); the
\* second candidate is returned without a call of HasSpareCapacity.
C16_Step ==
  \A th \in Threads :
    LET e == evict[th]
        f == evict'[th]
    IN /\ e.probes <= 2 /\ Len(e.asked) <= 1
       /\ (e.pc \in {"load1", "load2"} /\ f.pc /= e.pc) =>
            /\ f.t = (IF next_to_evict_ >= kNumClasses THEN 1 ELSE next_to_evict_)
            /\ f.pc = (IF e.pc = "load1" THEN "store1" ELSE "store2")
            /\ next_to_evict_' = next_to_evict_
       /\ (e.pc \in {"store1", "store2"} /\ f.pc /= e.pc) =>
            /\ next_to_evict_' = e.t + 1
            /\ f.probes = e.probes + 1
            /\ (next_to_evict_ = e.t \/ (next_to_evict_ >= kNumClasses /\ e.t = 1))
                 => next_to_evict_' =
                      (IF next_to_evict_ >= kNumClasses THEN 1 ELSE next_to_evict_) + 1
       /\ (e.pc = "ask" /\ f.pc /= e.pc) =>
            /\ e.probes = 1
            /\ f.pc \in {"done", "load2"}
            /\ f.pc = "done" => f.ret = e.t /\ f.probes = 1
            /\ next_to_evict_' = next_to_evict_
       /\ (e.pc = "store2" /\ f.pc /= e.pc) =>
            /\ f.pc = "done"
            /\ f.ret = e.t
            /\ f.asked = e.asked
            /\ f.probes = 2
       /\ e.pc \in {"load2", "store2"} => e.probes = 1 /\ Len(e.asked) = 1
       /\ e.pc = "done" => e.probes \in {1, 2}

C16_AtMostTwoProbes == [][C16_Step]_vars

\* C16 witness: a call has returned its second candidate, which is not the
\* class it asked HasSpareCapacity about.
C16_Witness ==
  \E th \in Threads :
    /\ evict[th].pc = "done"
    /\ evict[th].probes = 2
    /\ Len(evict[th].asked) = 1
    /\ evict[th].ret /= evict[th].asked[1]
    /\ next_to_evict_ = evict[th].ret + 1

\* the first candidate is returned at once, with no call of HasSpareCapacity
\* and no second probe
ReturnsFirstUnasked(th) ==
  /\ evict'[th].pc = "done"
  /\ evict'[th].ret = evict[th].t
  /\ evict'[th].asked = << >>
  /\ evict'[th].probes = 1
  /\ next_to_evict_' = next_to_evict_

\* C17 as claimed: in both variants a first candidate equal to
\* current_size_class is returned at once, without a call of
\* HasSpareCapacity and without a second probe.
C17_Original_Step ==
  \A th \in Threads :
    (/\ evict[th].pc = "ask" /\ evict'[th].pc /= "ask"
     /\ evict[th].t = evict[th].arg)
      => ReturnsFirstUnasked(th)

C17_Original == [][C17_Original_Step]_vars

\* C17 amended: in the ring variant a first candidate equal to
\* current_size_class is returned at once, without a call of HasSpareCapacity
\* and without a second probe; the legacy variant calls HasSpareCapacity for
\* every first candidate and takes a second probe when the answer is no.
C17_Step ==
  \A th \in Threads :
    (/\ evict[th].pc = "ask" /\ evict'[th].pc /= "ask"
     /\ evict[th].t = evict[th].arg)
      => IF implementation_ = "Ring"
           THEN ReturnsFirstUnasked(th)
           ELSE /\ evict'[th].asked = <<evict[th].t>>
                /\ \/ evict'[th].pc = "done" /\ evict'[th].ret = evict[th].t
                   \/ evict'[th].pc = "load2"

C17_SelfEvictionInRing == [][C17_Step]_vars

\* C17 witness: the ring variant has returned the class it was called for
\* without asking.
C17_Witness ==
  \E th \in Threads :
    /\ implementation_ = "Ring"
    /\ evict[th].pc = "done"
    /\ evict[th].ret = evict[th].arg
    /\ evict[th].asked = << >>

\* what ChooseImplementation is claimed to give
ClaimedImplementation(forced, env) ==
  IF forced THEN "Ring"
  ELSE IF env.set
    THEN IF env.val = <<"0">> THEN "Legacy"
         ELSE IF env.val = <<"1">> THEN "Ring"
         ELSE "Crash"
  ELSE "Legacy"

\* C18: ChooseImplementation gives Ring whenever the experiment is forced
\* on; otherwise, with the environment variable set, Legacy for the value
\* "0", Ring for the value "1" and a fatal error for every other value;
\* otherwise Legacy.
C18_ChooseImplementationOrder ==
  choose.pc \in {"done", "crashed"} =>
    choose.ret = ClaimedImplementation(choose.forced, choose.env)

\* C18 witness: with the experiment off, the value "01" has given Legacy and
\* no fatal error.
C18_Witness ==
  /\ choose.pc = "done"
  /\ ~choose.forced
  /\ choose.env = [set |-> TRUE, val |-> <<"0", "1">>]
  /\ choose.ret = "Legacy"

\* the CPUs a list names
ListCpus(list) ==
  UNION {list[i].lo .. list[i].hi : i \in DOMAIN list}

\* C19: for a well-formed CPU list ParseCpulist ends, without a fatal error,
\* with exactly the union of the single CPUs and the inclusive ranges of the
\* list; for the empty text that is the empty set.
C19_ParseCpulistUnion ==
  /\ parse.pc # "crashed"
  /\ parse.pc = "done" => parse.set = ListCpus(parse.list)

\* C19 witness: the text "0-2,5,8-9" has been parsed to {0, 1, 2, 5, 8, 9}.
C19_Witness ==
  /\ parse.pc = "done"
  /\ parse.text = <<"0", "-", "2", ",", "5", ",", "8", "-", "9">>
  /\ parse.set = {0, 1, 2, 5, 8, 9}

\* the nodes whose turn of the enumeration loop is over
NodesDone == {n \in numa.opened : n < numa.node}

\* C20: every node n the enumeration has dealt with is recorded in
\* partition_to_nodes[n mod num_partitions]; when that partition is not 0,
\* every CPU of the node's list has
\* cpu_to_scaled_partition[cpu] = (n mod num_partitions) * scale_by, and the
\* CPUs of a node of partition 0 still have 0.
C20_NodesAndCpusRecorded ==
  \A n \in NodesDone :
    LET p == n % numa.num_partitions IN
      /\ n \in numa.partition_to_nodes[p]
      /\ \A c \in ListCpus(NodeList(machine.layout, n)) :
           numa.cpu_to_scaled_partition[c] =
             IF p # 0 THEN p * numa.scale_by ELSE 0

\* C20 witness: on the large machine the enumeration has ended after node 32
\* and node 32 is missing from the set of its partition.
C20_Witness ==
  /\ numa.pc = "done"
  /\ machine.nodes = ManyNodes
  /\ 32 \in numa.opened
  /\ 32 \notin numa.partition_to_nodes[32 % numa.num_partitions]

\* every entry of cpu_to_scaled_partition is 0
AllCpusInPartition0 == \A c \in CpuIds : numa.cpu_to_scaled_partition[c] = 0
\* partition_to_nodes holds node 0 in partition 0 and nothing else
OnlyNode0Recorded ==
  \A p \in DOMAIN numa.partition_to_nodes :
    numa.partition_to_nodes[p] = IF p = 0 THEN {0} ELSE {}

\* C21: InitNumaTopology returns true exactly when some node it enumerated
\* is of a partition other than 0 and lists at least one CPU; whenever it
\* returns false every entry of cpu_to_scaled_partition is still 0.
C21_AwareIffCpusInNonZeroPartition ==
  numa.pc = "done" =>
    /\ numa.ret =
         (\E n \in numa.opened :
            /\ n % numa.num_partitions # 0
            /\ ListCpus(NodeList(machine.layout, n)) # {})
    /\ numa.ret = FALSE => AllCpusInPartition0

\* C21 witness: the enumeration ran over several nodes and the call
\* returned true.
C21_Witness ==
  /\ numa.pc = "done"
  /\ numa.ret = TRUE
  /\ Cardinality(numa.opened) > 1

\* C22: with num_partitions = 1 no step opens a cpulist, changes an entry of
\* cpu_to_scaled_partition or the bind mode, or ends in the fatal error, and
\* the call returns false with node 0 recorded in partition 0, whatever the
\* environment and the machine are.
C22_Step ==
  numa.num_partitions = 1 =>
    /\ numa'.opened = {}
    /\ numa'.cpu_to_scaled_partition = numa.cpu_to_scaled_partition
    /\ AllCpusInPartition0
    /\ numa'.bind_mode = numa.bind_mode
    /\ numa'.pc # "crashed"
    /\ numa'.pc = "done" =>
         /\ numa'.ret = FALSE
         /\ 0 \in numa'.partition_to_nodes[0]
C22_OnePartition == [][C22_Step]_vars

\* C22 witness: a call with one partition has returned on a machine with
\* several nodes, rseq and a value of TCMALLOC_NUMA_AWARE that enables.
C22_Witness ==
  /\ numa.pc = "done"
  /\ numa.num_partitions = 1
  /\ machine.nodes > 1
  /\ machine.fast
  /\ machine.env = [set |-> TRUE, val |-> "1"]

\* C23: with TCMALLOC_NUMA_AWARE = "0" no node is probed, every CPU stays in
\* partition 0 and the call returns false with only node 0 recorded, in
\* partition 0, whatever the machine is.
C23_DisabledByEnv ==
  (machine.env.set /\ machine.env.val = "0") =>
    /\ numa.opened = {}
    /\ AllCpusInPartition0
    /\ numa.pc # "crashed"
    /\ numa.pc = "done" => numa.ret = FALSE /\ OnlyNode0Recorded

\* C23 witness: the variable is "0" and the call has returned from reading
\* it, on a machine with several nodes.
C23_Witness ==
  /\ numa.pc = "done"
  /\ machine.env = [set |-> TRUE, val |-> "0"]
  /\ machine.fast
  /\ numa.num_partitions > 1
  /\ machine.nodes > 1

\* the enumeration starts with bind mode m; the call returns false with the
\* bind mode it was called with
NumaEnabledWith(m) == numa'.pc = "open" /\ numa'.bind_mode = m
NumaDisabled ==
  /\ numa'.pc = "done"
  /\ numa'.ret = FALSE
  /\ numa'.bind_mode = numa.bind_mode

\* C24: with num_partitions > 1 and rseq, the step that reads
\* TCMALLOC_NUMA_AWARE gives: unset, the default (disabled unless
\* default_want_numa_aware(), bind mode as passed in); "0", disabled;
\* "no-binding", enabled with kNone; "1" and "advisory-binding", enabled with
\* kAdvisory; "strict-binding", enabled with kStrict.
C24_Step ==
  (numa.pc = "getenv" /\ numa' # numa) =>
    LET e == machine.env IN
      /\ numa.num_partitions > 1 /\ machine.fast
      /\ ~e.set =>
           IF machine.want THEN NumaEnabledWith(numa.bind_mode)
           ELSE NumaDisabled
      /\ (e.set /\ e.val = "0") => NumaDisabled
      /\ (e.set /\ e.val = "no-binding") => NumaEnabledWith("kNone")
      /\ (e.set /\ e.val \in {"1", "advisory-binding"}) =>
           NumaEnabledWith("kAdvisory")
      /\ (e.set /\ e.val = "strict-binding") => NumaEnabledWith("kStrict")
C24_EnvResolution == [][C24_Step]_vars

\* C24 witness: "no-binding" has started the enumeration with kNone.
C24_Witness ==
  /\ numa.pc = "open"
  /\ numa.opened = {}
  /\ machine.env = [set |-> TRUE, val |-> "no-binding"]
  /\ numa.bind_mode = "kNone"

NumaEnvRecognised ==
  {"0", "1", "no-binding", "advisory-binding", "strict-binding"}
BadNumaEnv == machine.env.set /\ machine.env.val \notin NumaEnvRecognised

\* C25 as claimed: with any other value of TCMALLOC_NUMA_AWARE the call
\* never returns, for every num_partitions and with or without rseq.
C25_Original == BadNumaEnv => numa.pc # "done"

\* C25: with any other value of TCMALLOC_NUMA_AWARE the call never returns
\* and never starts the enumeration when num_partitions > 1 and rseq is
\* available; with one partition or without rseq it never reaches the fatal
\* error, and what it returns is false.
C25_BadEnvFatalWhenRead ==
  BadNumaEnv =>
    IF numa.num_partitions > 1 /\ machine.fast
      THEN numa.pc \in {"start", "one_partition", "is_fast", "getenv", "crashed"}
      ELSE /\ numa.pc # "crashed"
           /\ numa.pc = "done" => numa.ret = FALSE

\* C25 witness: the value "2" has ended a call with several partitions and
\* rseq in the fatal error.
C25_Witness ==
  /\ numa.pc = "crashed"
  /\ machine.env = [set |-> TRUE, val |-> "2"]
  /\ numa.num_partitions > 1
  /\ machine.fast

\* what a call of ParseCpulist gives: whether it aborted, and if not, the set
ParseOutcome(s) == <<s.pc, IF s.pc = "crashed" THEN {} ELSE s.set>>

\* C26: the set ParseCpulist returns, and whether it aborts, depend only on
\* the text: after any reads of 1 to 16 bytes, finishing the parse gives what
\* a single bulk parse of the whole text gives, so every finished call has
\* the result of the bulk parse, whatever fell on a chunk boundary.
C26_ChunkIndependent ==
  parse.pc # "scan" =>
    ParseOutcome(BulkParse(parse))
      = ParseOutcome(BulkParse([StartParse(<< >>) EXCEPT !.text = parse.text]))

\* C26 witness: a read has delivered only the first digit of "11" in
\* "11-1", and the parser has kept it and reads on.
C26_Witness ==
  /\ parse.pc = "read"
  /\ parse.text = <<"1", "1", "-", "1">>
  /\ parse.pos = 1
  /\ parse.buf = <<"1">>

\* the candidates that the next n probes take when nothing else stores to
\* the cursor, which holds c: each the wrapped cursor, stored back plus one
RECURSIVE CandidatesFrom(_, _)
CandidatesFrom(c, n) ==
  IF n = 0 THEN << >>
  ELSE <<WrapCursor(c)>> \o CandidatesFrom(CursorAfter(WrapCursor(c)), n - 1)

\* C27: in calls without overlap, from any cursor value, the candidates to
\* come are the classes 1 .. kNumClasses-1 each once and then the first one
\* again; every probe takes the first of them and its store leaves the rest
\* to come, and nothing else moves the cursor.
C27_Step ==
  LET e == evict[FirstThread]
      f == evict'[FirstThread]
      c == CandidatesFrom(next_to_evict_, kNumClasses)
  IN /\ {c[i] : i \in 1 .. (kNumClasses - 1)} = 1 .. (kNumClasses - 1)
     /\ c[kNumClasses] = c[1]
     /\ (e.pc \in {"load1", "load2"} /\ f.pc /= e.pc) => f.t = c[1]
     /\ (e.pc \in {"store1", "store2"} /\ f.pc /= e.pc) =>
          /\ e.t = c[1]
          /\ CandidatesFrom(next_to_evict_', kNumClasses - 1) = Tail(c)
     /\ (e.pc \notin {"store1", "store2"} \/ f.pc = e.pc) =>
          next_to_evict_' = next_to_evict_

C27_CandidatesCycle == [][C27_Step]_vars

\* C27 witness: a call that found the cursor at the last class has taken
\* class 1 as its second candidate.
C27_Witness ==
  /\ evict[FirstThread].pc = "store2"
  /\ evict[FirstThread].asked = <<kNumClasses - 1>>
  /\ evict[FirstThread].t = 1

\* a call of PushBatch or PopBatch with n = 0
EmptyBatchCall(t) == op[t].kind \in {"PushBatch", "PopBatch"} /\ op[t].len = 0

\* C28: a PushBatch or PopBatch with n = 0 writes nothing (no slab slot, no
\* header field, no word of or behind the caller's array), does not leave
\* the bounds of its class, and what it returns is 0.
C28_Step ==
  \A t \in Threads :
    EmptyBatchCall(t) =>
      /\ slots' = slots
      /\ hdr' = hdr
      /\ batch'[t] = batch[t]
      /\ pc'[t] /= "out_of_region"
      /\ pc'[t] = "done" => ret'[t] = [val |-> 0, kind |-> "count"]

C28_EmptyBatchWritesNothing == [][C28_Step]_vars

\* C28 witness: a PushBatch with n = 0 on a class with room left has stored
\* through the end of the CPU's region.
C28_Witness ==
  \E t \in Threads :
    /\ op[t].kind = "PushBatch"
    /\ op[t].len = 0
    /\ pc[t] = "out_of_region"

\* C29: every call of Push, Pop, PushBatch or PopBatch finishes (commits,
\* returns 0 or has called its handler), provided that from some time on the
\* thread runs without being preempted.
C29_EveryCallFinishes ==
  (<>[][~Preempt(FirstThread)]_vars) =>
    ((pc[FirstThread] \notin {"idle", "done"}) ~> (pc[FirstThread] = "done"))

\* C29 witness: a PopBatch with n = 0 on a class with live objects has read
\* down through the start of the CPU's region and has not finished.
C29_Witness ==
  /\ op[FirstThread].kind = "PopBatch"
  /\ op[FirstThread].len = 0
  /\ pc[FirstThread] = "out_of_region"
  /\ Len(batch[FirstThread]) > 0

\* C30: a call of PerCpuCmpxchg64 finishes in one of three ways: on another
\* CPU than target_cpu it stores nothing and returns the CPU it runs on; on
\* target_cpu with *p = old_val it stores new_val and returns target_cpu;
\* on target_cpu with *p /= old_val it stores nothing and returns -1.  *p
\* changes by no other step.
C30_Step ==
  LET Finishes(t) == cmpxchg[t].pc /= "done" /\ cmpxchg'[t].pc = "done"
      Stored(t) ==
        /\ cmpxchg[t].cpu_id = cmpxchg[t].target_cpu
        /\ word[cmpxchg[t].target_cpu] = cmpxchg[t].old_val
        /\ word' = [word EXCEPT ![cmpxchg[t].target_cpu] = cmpxchg[t].new_val]
        /\ cmpxchg'[t].ret = cmpxchg[t].target_cpu
  IN /\ \A t \in Threads :
          Finishes(t) =>
            \/ /\ cmpxchg[t].cpu_id /= cmpxchg[t].target_cpu
               /\ word' = word
               /\ cmpxchg'[t].ret = cmpxchg[t].cpu_id
            \/ Stored(t)
            \/ /\ cmpxchg[t].cpu_id = cmpxchg[t].target_cpu
               /\ word[cmpxchg[t].target_cpu] /= cmpxchg[t].old_val
               /\ word' = word
               /\ cmpxchg'[t].ret = -1
     /\ word' /= word => \E t \in Threads : Finishes(t) /\ Stored(t)

C30_CmpxchgOutcomes == [][C30_Step]_vars

\* C30 witness: a call on target_cpu has replaced old_val by another value,
\* while a call of another thread on the same CPU was sent back to its start.
C30_Witness ==
  \E t, u \in Threads :
    /\ t /= u
    /\ cmpxchg[t].pc = "done"
    /\ cmpxchg[t].ret = cmpxchg[t].target_cpu
    /\ cmpxchg[t].cpu_id = cmpxchg[t].target_cpu
    /\ cmpxchg[t].new_val /= cmpxchg[t].old_val
    /\ word[cmpxchg[t].target_cpu] = cmpxchg[t].new_val
    /\ cmpxchg[u].cpu_id = cmpxchg[t].cpu_id
    /\ cmpxchg[u].target_cpu = cmpxchg[t].target_cpu
    /\ cmpxchg[u].old_val = cmpxchg[t].old_val
    /\ cmpxchg[u].pc = "start"

\* the bits set in some entry of partition_to_nodes
NodeBits == UNION {numa.partition_to_nodes[p] : p \in DOMAIN numa.partition_to_nodes}

\* C31: on a machine with up to 64 nodes no bit is ever set but bit 0 and
\* the bits of the nodes enumerated; after InitNumaTopology the node sets of
\* distinct partitions are pairwise disjoint, and bit n is set in some entry
\* exactly when n = 0 or node n was enumerated.
C31_RecordingSetsExactlyBitN ==
  machine.nodes <= 64 =>
    /\ NodeBits \subseteq {0} \cup numa.opened
    /\ numa.pc = "done" =>
         /\ \A p, q \in DOMAIN numa.partition_to_nodes :
              p # q =>
                numa.partition_to_nodes[p] \cap numa.partition_to_nodes[q] = {}
         /\ \A n \in 0 .. 63 : n \in NodeBits <=> (n = 0 \/ n \in numa.opened)

\* C31 witness: node 31 was recorded, and bit 63 stands in the set of its
\* partition on a machine that has no node 63.
C31_Witness ==
  /\ numa.pc = "done"
  /\ machine.nodes = ManyNodes
  /\ 31 \in numa.opened
  /\ 63 \notin numa.opened
  /\ 63 \in numa.partition_to_nodes[31 % numa.num_partitions]


(* --------------------------- StackTraceTable ----------------------------- *)
\* the traces AddTrace is called with: the stack (depth is its length) and
\* the weight; the sizes and hints of a StackTrace are the same in all of them
StackTraces == [stack : {<<1>>, <<1, 2>>, <<3>>}, weight : 1 .. MaxWeight]

\* absl::Hash<StackTrace>: a function of the trace that does not separate all
\* traces. It does not read the weight, so traces of one stack hash alike;
\* the hash of <<1, 2>> differs from that of <<1>> above bucket_mask_ only,
\* <<3>> falls into another slot.
AbslHash(t) ==
  CASE t.stack = <<1>> -> 5
    [] t.stack = <<1, 2>> -> 5 + 2^14
    [] OTHER -> 7

KeyEqualHashOnly(b, h, t) == b.hash = h

\* Bucket::KeyEqual; operator== of StackTrace compares the whole trace
KeyEqual(b, h, t) == b.hash = h /\ b.trace = t

\* AddTrace(count, t). h & bucket_mask_ is h modulo bucket_mask_ + 1, the mask
\* being 0 or 2^14 - 1. The walk along the chain stops at the first bucket
\* that is KeyEqual; count, total_weight are doubles holding whole numbers,
\* and the conversion of total_weight / count + 0.5 to the weight cuts the
\* fraction off.
AddTrace(count, t) ==
  /\ added.calls < MaxCalls
  /\ added' = [calls |-> added.calls + 1, traces |-> added.traces \cup {t}]
  /\ LET h == AbslHash(t)
         idx == h % (stt.bucket_mask_ + 1)
         head == IF idx \in DOMAIN stt.table_ THEN stt.table_[idx] ELSE << >>
         chain == IF stt.merge_ THEN head ELSE << >>
         hits == {i \in 1 .. Len(chain) : KeyEqual(chain[i], h, t)}
     IN  IF stt.error_
           THEN UNCHANGED stt
           ELSE IF hits # {}
             THEN LET i == CHOOSE j \in hits : \A k \in hits : j <= k
                      b == chain[i]
                      cnt == b.count + count
                      tw == b.total_weight + count * t.weight
                  IN  stt' = [stt EXCEPT !.table_[idx][i] =
                                [b EXCEPT !.count = cnt,
                                          !.total_weight = tw,
                                          !.trace.weight =
                                            (2 * tw + cnt) \div (2 * cnt)]]
             ELSE LET b == [count |-> count, hash |-> h, trace |-> t,
                            total_weight |-> t.weight * count]
                  IN  stt' = [stt EXCEPT
                                !.depth_total_ = @ + Len(t.stack),
                                !.bucket_total_ = @ + 1,
                                !.table_ =
                                  [x \in DOMAIN stt.table_ \cup {idx} |->
                                     IF x = idx THEN <<b>> \o head
                                     ELSE stt.table_[x]]]
  /\ UNCHANGED nonTraceVars

InitTrace ==
  /\ SlabIdle
  /\ ManagerIdle
  /\ NumaIdle
  /\ CmpxchgIdle
  /\ \E merge \in BOOLEAN : stt = NewStackTraceTable(merge)
  /\ added = [calls |-> 0, traces |-> {}]

NextTrace ==
  \E count \in 1 .. MaxCount, t \in StackTraces : AddTrace(count, t)

SpecTrace == InitTrace /\ [][NextTrace]_vars

\* the buckets reachable from table_: slot and place in the chain
ReachableBuckets ==
  UNION {{<<idx, i>> : i \in 1 .. Len(stt.table_[idx])} : idx \in DOMAIN stt.table_}
BucketAt(p) == stt.table_[p[1]][p[2]]

\* C32: with merge enabled no two buckets reachable from the table have equal
\* hash and trace, every trace added has exactly one bucket, every bucket
\* holds a trace that was added, and bucket_total_ is the number of buckets
\* reachable from the table; with merge disabled every call added one bucket,
\* so bucket_total_ and the number of reachable buckets equal the number of
\* calls.
C32_OneBucketPerTrace ==
  /\ stt.merge_ =>
       /\ \A p, q \in ReachableBuckets :
            p # q => ~ /\ BucketAt(p).hash = BucketAt(q).hash
                       /\ BucketAt(p).trace = BucketAt(q).trace
       /\ \A t \in added.traces :
            Cardinality({p \in ReachableBuckets :
                           /\ BucketAt(p).hash = AbslHash(t)
                           /\ BucketAt(p).trace = t}) = 1
       /\ \A p \in ReachableBuckets : BucketAt(p).trace \in added.traces
       /\ stt.bucket_total_ = Cardinality(ReachableBuckets)
  /\ ~stt.merge_ =>
       /\ stt.bucket_total_ = added.calls
       /\ Cardinality(ReachableBuckets) = added.calls

\* C32 witness: with merge enabled three calls added two traces of equal
\* hash, one of them twice; the table holds two buckets in one chain, one of
\* them merged from two calls.
C32_Witness ==
  /\ stt.merge_
  /\ added.calls = 3
  /\ added.traces = {[stack |-> <<1>>, weight |-> 2], [stack |-> <<1>>, weight |-> 1]}
  /\ stt.bucket_total_ = 2
  /\ \E p, q \in ReachableBuckets :
       /\ p # q
       /\ p[1] = q[1]
       /\ BucketAt(p).hash = BucketAt(q).hash
       /\ BucketAt(p).count = 1
       /\ BucketAt(q).count >= 2
       /\ BucketAt(q).trace.weight = 2

=============================================================================
